---- MODULE Spec2Model ----
(***************************************************************************)
(* Migration execution and release gating of bytebase                      *)
(* (backend/utils/utils.go).                                               *)
(*                                                                         *)
(* Part 1 - MigrationCoordinator: ExecuteMigrationWithFunc, BeginMigration *)
(* and EndMigration over the instance change history kept by the store.    *)
(* Record ids are strings in the code; here they are the positions of the  *)
(* records in the history, and 0 stands for the empty id "".               *)
(***************************************************************************)
EXTENDS Integers, Sequences, FiniteSets, TLC

\* ------------------------------------------------------------------ bounds
\* calls of ExecuteMigrationWithFunc in one behaviour
MaxCalls == 2

\* the task workers that call ExecuteMigrationWithFunc
Workers == {1, 2}
\* version 0 is a version string that ToStoredVersion rejects, 1 a valid one
Versions == {0, 1}
Issues == {1, 2}
\* DatabaseID is a *int: 0 is nil (instance level migration), 1 a database
DatabaseIDs == {0, 1}
MigrationTypes == {"MIGRATE", "BASELINE"}

\* ------------------------------------------------------------ error values
\* An error is its common.Code, its message (a sequence of words) and the
\* prefix errors.Wrap/Wrapf put in front of it ("" when it is not wrapped).
NilErr == [code |-> "Ok", msg |-> <<>>, wrap |-> ""]

Errorf(code, msg) == [code |-> code, msg |-> msg, wrap |-> ""]

Wrapf(err, prefix) == [err EXCEPT !.wrap = prefix]

ErrorCode(err) == err.code

Contains(msg, word) == \E i \in DOMAIN msg : msg[i] = word

MsgAppliedByIssue == <<"has already applied version", "by issue">>
MsgApplied == <<"has already applied version">>
MsgInProgress == <<"migration is already in progress">>
MsgHasFailed == <<"migration has failed">>
MsgDatabaseGone == <<"database", "not found">>
MsgTableGone == <<"table", "not found">>
MsgConnRefused == <<"connection refused">>
MsgStore == <<"store error">>
MsgExec == <<"exec error">>
MsgBadVersion == <<"invalid version">>

\* what driver.Dump can produce: a schema, or an error with the reason behind it
PrevSchemas == {"s0"}
Schemas == {"s0", "s1"}
DumpErrors == {[msg |-> MsgDatabaseGone, dropped |-> TRUE],
               [msg |-> MsgTableGone, dropped |-> FALSE],
               [msg |-> MsgConnRefused, dropped |-> FALSE]}

\* --------------------------------------------------------------- statements
\* A statement is a sequence of tokens: plain text, or a placeholder
\* ${{ secrets.NAME }} carrying its NAME.
Text(s) == [ph |-> FALSE, s |-> s]
Placeholder(name) == [ph |-> TRUE, s |-> name]

RenderSizeLimit == 1024 * 1024

Statements == {<<>>, <<Placeholder("KEY"), Text("ALTER")>>}
\* the secret maps a database can carry (name -> value tokens)
SecretMaps == {<<>>, [n \in {"KEY"} |-> <<Text("xyz")>>]}

RECURSIVE ReplaceAll(_, _, _)
ReplaceAll(template, match, value) ==
    IF template = <<>> THEN <<>>
    ELSE IF Head(template) = match
         THEN value \o ReplaceAll(Tail(template), match, value)
         ELSE <<Head(template)>> \o ReplaceAll(Tail(template), match, value)

FindAllStringSubmatch(template) == SelectSeq(template, LAMBDA t : t.ph)

RECURSIVE RenderLoop(_, _, _)
RenderLoop(template, matches, secrets) ==
    IF matches = <<>> THEN template
    ELSE LET match == Head(matches)
         IN IF match.s \in DOMAIN secrets
            THEN RenderLoop(ReplaceAll(template, match, secrets[match.s]),
                            Tail(matches), secrets)
            ELSE RenderLoop(template, Tail(matches), secrets)

\* len(templateStatement) in bytes: Blob is a text one byte short of the size
\* limit, every other token counts one byte.
Blob == Text("blob")
RECURSIVE ByteLen(_)
ByteLen(statement) ==
    IF statement = <<>> THEN 0
    ELSE (IF Head(statement) = Blob THEN RenderSizeLimit - 1 ELSE 1) + ByteLen(Tail(statement))

\* RenderStatement without the test of the template's size.
RenderStatementNoSizeGuard(templateStatement, secrets) ==
    IF templateStatement = <<>> THEN <<>>
    ELSE IF DOMAIN secrets = {} THEN templateStatement
    ELSE RenderLoop(templateStatement, FindAllStringSubmatch(templateStatement), secrets)

RenderStatement(templateStatement, secrets) ==
    IF templateStatement = <<>> THEN <<>>
    ELSE IF DOMAIN secrets = {} THEN templateStatement
    ELSE IF ByteLen(templateStatement) > RenderSizeLimit THEN templateStatement
    ELSE RenderLoop(templateStatement, FindAllStringSubmatch(templateStatement), secrets)

\* -------------------------------------------------------------------- state
VARIABLES
    history,   \* the store's instance change history, record id = position
    wk,        \* per worker: the ExecuteMigrationWithFunc call it is running
    calls,     \* number of calls started so far
    ap,        \* the issue's approval payload and the last approval call made on it
    gate,      \* a task, its check runs and the last task gate call made on them
    mx,        \* a deployment schedule, a database list and the matrix built from them
    gh,        \* the server id offset and the uses made of the ghost configuration
    rs,        \* a template statement, a secret map and the statement rendered from them
    sw         \* the callers that run SkipApprovalStepIfNeeded on the approval at once

vars == <<history, wk, calls, ap, gate, mx, gh, rs, sw>>

NotCalled == <<Text("<execFunc not called>")>>
NoSchema == "<null>"
NoUpdate == [id |-> 0, status |-> "NONE", schema |-> NoSchema, duration |-> FALSE]

IdleWorker ==
    [pc |-> "idle",
     m |-> [db |-> 0, version |-> 1, issue |-> 1, force |-> FALSE, type |-> "MIGRATE"],
     statement |-> <<>>,
     prevSchema |-> "",
     insertedID |-> 0,
     found |-> 0,
     foundStatus |-> "NONE",
     foundIssue |-> 0,
     beginID |-> 0,
     beginErr |-> NilErr,
     began |-> FALSE,
     doMigrate |-> FALSE,
     rendered |-> FALSE,
     execArg |-> NotCalled,
     execErr |-> NilErr,
     postDump |-> "none",
     postSchema |-> "",
     migrationHistoryID |-> 0,
     updatedSchema |-> "",
     resErr |-> NilErr,
     endCalled |-> FALSE,
     endUpdate |-> NoUpdate,
     endErr |-> NilErr]

\* ================================================================ task gate
\* Task types, task check types and the status of a check result.
TaskDatabaseSchemaUpdate == "bb.task.database.schema.update"
TaskDatabaseSchemaUpdateSDL == "bb.task.database.schema.update-sdl"
TaskDatabaseDataUpdate == "bb.task.database.data.update"
TaskDatabaseSchemaUpdateGhostSync == "bb.task.database.schema.update.ghost.sync"
TaskDatabaseCreate == "bb.task.database.create"
TaskTypes ==
    {TaskDatabaseSchemaUpdate, TaskDatabaseSchemaUpdateSDL, TaskDatabaseDataUpdate,
     TaskDatabaseSchemaUpdateGhostSync, TaskDatabaseCreate}

TaskCheckDatabaseConnect == "bb.task-check.database.connect"
TaskCheckDatabaseStatementSyntax == "bb.task-check.database.statement.syntax"
TaskCheckDatabaseStatementAdvise == "bb.task-check.database.statement.advise"
TaskCheckDatabaseStatementType == "bb.task-check.database.statement.type"
TaskCheckGhostSync == "bb.task-check.database.ghost.sync"
TaskCheckTypes ==
    <<TaskCheckDatabaseConnect, TaskCheckDatabaseStatementSyntax,
      TaskCheckDatabaseStatementAdvise, TaskCheckDatabaseStatementType, TaskCheckGhostSync>>

TaskCheckRunDone == "DONE"
TaskCheckRunStatuses == {TaskCheckRunDone, "RUNNING"}

\* TaskCheckStatus.LessThan: SUCCESS is the highest level, then WARN, then ERROR.
level(status) ==
    CASE status = "SUCCESS" -> 2
      [] status = "WARN" -> 1
      [] status = "ERROR" -> 0
      [] OTHER -> 0 - 1
\* Mutant of LessThan: the levels in the opposite order.
LessThanAscending(status, allowedStatus) == level(status) > level(allowedStatus)
LessThan(status, allowedStatus) == level(status) < level(allowedStatus)

\* A run's result payload: JSON that decodes into a result list, or does not.
Payload(resultList) == [valid |-> TRUE, resultList |-> resultList]
Malformed == [valid |-> FALSE, resultList |-> <<>>]
TaskCheckRun(id, taskID, type, status, result) ==
    [id |-> id, taskID |-> taskID, type |-> type, status |-> status, result |-> result]

\* The database engine: its type and what api says it supports.
Postgres == "POSTGRES"
Engines == [type : {Postgres, "MYSQL"}, syntaxCheck : BOOLEAN, sqlReview : BOOLEAN]
IsSyntaxCheckSupported(engine) == engine.syntaxCheck
IsSQLReviewSupported(engine) == engine.sqlReview

\* Mutant of LastRun: the run of checkType that is listed last.
RECURSIVE LastRunListedLast(_, _, _, _)
LastRunListedLast(taskCheckRunList, checkType, i, lastRun) ==
    IF i > Len(taskCheckRunList) THEN lastRun
    ELSE IF taskCheckRunList[i].type # checkType
    THEN LastRunListedLast(taskCheckRunList, checkType, i + 1, lastRun)
    ELSE LastRunListedLast(taskCheckRunList, checkType, i + 1, i)

\* The run passCheck looks at: the position of the run of checkType with the
\* greatest id, 0 if the list has none.
RECURSIVE LastRun(_, _, _, _)
LastRun(taskCheckRunList, checkType, i, lastRun) ==
    IF i > Len(taskCheckRunList) THEN lastRun
    ELSE LET run == taskCheckRunList[i]
         IN  IF run.type # checkType
             THEN LastRun(taskCheckRunList, checkType, i + 1, lastRun)
             ELSE IF lastRun = 0 \/ taskCheckRunList[lastRun].id < run.id
             THEN LastRun(taskCheckRunList, checkType, i + 1, i)
             ELSE LastRun(taskCheckRunList, checkType, i + 1, lastRun)

\* passCheck: (bool, error).
passCheck(taskCheckRunList, checkType, allowedStatus) ==
    LET lastRun == LastRun(taskCheckRunList, checkType, 1, 0)
        run == taskCheckRunList[lastRun]
    IN  IF lastRun = 0 \/ run.status # TaskCheckRunDone
        THEN [pass |-> FALSE, err |-> NilErr]
        ELSE IF ~run.result.valid
        THEN [pass |-> FALSE, err |-> Errorf("Internal", <<"invalid character">>)]
        ELSE IF \E i \in DOMAIN run.result.resultList :
                    LessThan(run.result.resultList[i], allowedStatus)
        THEN [pass |-> FALSE, err |-> NilErr]
        ELSE [pass |-> TRUE, err |-> NilErr]

\* PassAllCheck: (bool, error). The checks run in the order of the code and the
\* first one that errs or does not pass decides.
RECURSIVE passChecks(_, _, _)
passChecks(runs, checkTypes, allowedStatus) ==
    IF checkTypes = <<>> THEN [pass |-> TRUE, err |-> NilErr]
    ELSE LET res == passCheck(runs, Head(checkTypes), allowedStatus)
         IN  IF res.err # NilErr \/ ~res.pass THEN [pass |-> FALSE, err |-> res.err]
             ELSE passChecks(runs, Tail(checkTypes), allowedStatus)

\* Mutant of PassAllCheck: the runs of every task are considered.
PassAllCheckOfAnyTask(task, allowedStatus, taskCheckRuns, engine) ==
    passChecks(taskCheckRuns,
               IF task.type = TaskDatabaseCreate THEN <<>>
               ELSE <<TaskCheckDatabaseConnect>>
                    \o (IF engine.syntaxCheck THEN <<TaskCheckDatabaseStatementSyntax>> ELSE <<>>)
                    \o (IF engine.sqlReview THEN <<TaskCheckDatabaseStatementAdvise>> ELSE <<>>)
                    \o (IF engine.type = Postgres THEN <<TaskCheckDatabaseStatementType>> ELSE <<>>)
                    \o (IF task.type = TaskDatabaseSchemaUpdateGhostSync
                        THEN <<TaskCheckGhostSync>> ELSE <<>>),
               allowedStatus)

PassAllCheck(task, allowedStatus, taskCheckRuns, engine) ==
    LET runs == SelectSeq(taskCheckRuns, LAMBDA run : run.taskID = task.id)
        updateChecks ==
            IF task.type \in {TaskDatabaseSchemaUpdate, TaskDatabaseSchemaUpdateSDL,
                              TaskDatabaseDataUpdate, TaskDatabaseSchemaUpdateGhostSync}
            THEN <<TaskCheckDatabaseConnect>>
                 \o (IF IsSyntaxCheckSupported(engine)
                     THEN <<TaskCheckDatabaseStatementSyntax>> ELSE <<>>)
                 \o (IF IsSQLReviewSupported(engine)
                     THEN <<TaskCheckDatabaseStatementAdvise>> ELSE <<>>)
                 \o (IF engine.type = Postgres
                     THEN <<TaskCheckDatabaseStatementType>> ELSE <<>>)
            ELSE <<>>
        ghostChecks ==
            IF task.type = TaskDatabaseSchemaUpdateGhostSync
            THEN <<TaskCheckGhostSync>> ELSE <<>>
    IN  passChecks(runs, updateChecks \o ghostChecks, allowedStatus)

NoGateCall == [op |-> "none", pass |-> FALSE, err |-> NilErr]
Task(id, type) == [id |-> id, type |-> type]
IdleGate ==
    [task |-> Task(1, TaskDatabaseCreate), allowedStatus |-> "SUCCESS", taskCheckRuns |-> <<>>,
     engine |-> [type |-> Postgres, syntaxCheck |-> TRUE, sqlReview |-> TRUE],
     checkType |-> TaskCheckDatabaseConnect, call |-> NoGateCall]

\* ======================================================== deployment matrix
\* Labels are key/value pairs, at most one per key. A label selector
\* expression names a key, an operator and the values it allows.
InOperatorType == "In"
ExistsOperatorType == "Exists"
Expression(key, operator, values) == [key |-> key, operator |-> operator, values |-> values]
HasKey(labels, key) == \E l \in labels : l[1] = key
ValueOf(labels, key) == (CHOOSE l \in labels : l[1] = key)[2]

isMatchExpression(labels, expression) ==
    CASE expression.operator = InOperatorType ->
            IF ~HasKey(labels, expression.key) THEN FALSE
            ELSE \E i \in DOMAIN expression.values :
                    expression.values[i] = ValueOf(labels, expression.key)
      [] expression.operator = ExistsOperatorType -> HasKey(labels, expression.key)
      [] OTHER -> FALSE

\* Mutant of isMatchExpressions: an empty expression list matches.
isMatchExpressionsEmptyMatches(labels, expressionList) ==
    \A i \in DOMAIN expressionList : isMatchExpression(labels, expressionList[i])

isMatchExpressions(labels, expressionList) ==
    IF Len(expressionList) = 0 THEN FALSE
    ELSE \A i \in DOMAIN expressionList : isMatchExpression(labels, expressionList[i])

\* A database and its sync state.
NotFound == "NOT_FOUND"
Database(uid, labels, syncState) == [uid |-> uid, labels |-> labels, syncState |-> syncState]

\* idToLabels and databaseMap: the entry of a UID is the last database listed
\* with it.
LastWithUID(databaseList, uid) ==
    databaseList[CHOOSE i \in DOMAIN databaseList :
                    /\ databaseList[i].uid = uid
                    /\ \A j \in DOMAIN databaseList : databaseList[j].uid = uid => j <= i]

\* Mutant of MatchDeployment: the UIDs matched by earlier deployments are not
\* skipped.
RECURSIVE MatchDeploymentForgetsSeen(_, _, _, _, _)
MatchDeploymentForgetsSeen(databaseList, i, expressionList, idsSeen, matchedDatabaseList) ==
    IF i > Len(databaseList)
    THEN [matched |-> matchedDatabaseList, idsSeen |-> idsSeen]
    ELSE IF /\ databaseList[i].syncState # NotFound
            /\ isMatchExpressions(databaseList[i].labels, expressionList)
    THEN MatchDeploymentForgetsSeen(databaseList, i + 1, expressionList, idsSeen,
                                    Append(matchedDatabaseList, databaseList[i].uid))
    ELSE MatchDeploymentForgetsSeen(databaseList, i + 1, expressionList, idsSeen,
                                    matchedDatabaseList)

\* The scan of the database list for one deployment: the UIDs it matches, in
\* list order, and the UIDs seen so far.
RECURSIVE MatchDeployment(_, _, _, _, _)
MatchDeployment(databaseList, i, expressionList, idsSeen, matchedDatabaseList) ==
    IF i > Len(databaseList)
    THEN [matched |-> matchedDatabaseList, idsSeen |-> idsSeen]
    ELSE LET database == databaseList[i]
         IN  IF database.uid \in idsSeen \/ database.syncState = NotFound
             THEN MatchDeployment(databaseList, i + 1, expressionList, idsSeen,
                                  matchedDatabaseList)
             ELSE IF isMatchExpressions(LastWithUID(databaseList, database.uid).labels,
                                        expressionList)
             THEN MatchDeployment(databaseList, i + 1, expressionList,
                                  idsSeen \cup {database.uid},
                                  Append(matchedDatabaseList, database.uid))
             ELSE MatchDeployment(databaseList, i + 1, expressionList, idsSeen,
                                  matchedDatabaseList)

\* Mutant of SortByUID: the stage keeps the order of the database list.
SortByUIDKeepsListOrder(databases) == databases

\* sort.Slice by UID, ascending.
RECURSIVE SortByUID(_)
SortByUID(databases) ==
    IF databases = <<>> THEN <<>>
    ELSE LET least == CHOOSE i \in DOMAIN databases :
                        \A j \in DOMAIN databases :
                            databases[i].uid < databases[j].uid
                            \/ (databases[i].uid = databases[j].uid /\ i <= j)
         IN  <<databases[least]>>
             \o SortByUID([k \in 1..(Len(databases) - 1) |->
                            IF k < least THEN databases[k] ELSE databases[k + 1]])

\* GetDatabaseMatrixFromDeploymentSchedule: one list of databases per deployment.
RECURSIVE MatrixFrom(_, _, _, _)
MatrixFrom(deployments, d, databaseList, idsSeen) ==
    IF d > Len(deployments) THEN <<>>
    ELSE LET scan == MatchDeployment(databaseList, 1, deployments[d], idsSeen, <<>>)
             stage == [k \in DOMAIN scan.matched |-> LastWithUID(databaseList, scan.matched[k])]
         IN  <<SortByUID(stage)>> \o MatrixFrom(deployments, d + 1, databaseList, scan.idsSeen)

GetDatabaseMatrixFromDeploymentSchedule(schedule, databaseList) ==
    MatrixFrom(schedule.deployments, 1, databaseList, {})

NoMatrixCall == [op |-> "none", matrix |-> <<>>]
IdleMatrix == [schedule |-> [deployments |-> <<>>], databaseList |-> <<>>, call |-> NoMatrixCall]

\* ============================================================= ghost config
\* Go's uint and the range of a replication server id, both scaled down (the
\* code has 2^64 and 2^32 - 1): sums are taken modulo UintModulus.
UintModulus == 2 ^ 16
MaxServerID == 2 ^ 12 - 1
Uint(n) == n % UintModulus

\* Names and statements are sequences of pieces of text; "." and " " are
\* pieces of their own. %v of an int is its decimal text.
Sprint(n) == ToString(n)

getSocketFilename(taskID, databaseID, databaseName, tableName) ==
    <<"/tmp/gh-ost", ".", Sprint(taskID), ".", Sprint(databaseID), ".">>
    \o databaseName \o <<".">> \o tableName \o <<".", "sock">>

GetPostponeFlagFilename(taskID, databaseID, databaseName, tableName) ==
    <<"/tmp/gh-ost", ".", Sprint(taskID), ".", Sprint(databaseID), ".">>
    \o databaseName \o <<".">> \o tableName \o <<".", "postponeFlag">>

\* common.Unobfuscate of the data source's password: the password, or an error.
Unobfuscate(obfuscatedPassword, secret) ==
    IF obfuscatedPassword = "obfuscated"
    THEN [password |-> "password", err |-> NilErr]
    ELSE [password |-> "", err |-> Errorf("Internal", <<"illegal base64 data">>)]

InstanceUser(name, grant) == [name |-> name, grant |-> grant]
RDSAdmin == "'rdsadmin'@'localhost'"

NoGhostConfig ==
    [serverID |-> 0, host |-> "", port |-> "", user |-> "", password |-> "",
     database |-> <<>>, table |-> <<>>, alterStatement |-> <<>>,
     socketFilename |-> <<>>, postponeFlagFilename |-> <<>>, noop |-> FALSE, isAWS |-> FALSE]

\* The loop over the instance users: some user is the RDS administrator and
\* its grants mention SUPER.
isAWSAnySuperUser(instanceUsers) ==
    \E i \in DOMAIN instanceUsers : Contains(instanceUsers[i].grant, "SUPER")
isAWS(instanceUsers) ==
    \E i \in DOMAIN instanceUsers :
        /\ instanceUsers[i].name = RDSAdmin
        /\ Contains(instanceUsers[i].grant, "SUPER")

\* serverIDOffset + uint(taskID), in uint arithmetic.
serverIDOfOffset(serverIDOffset, taskID) == Uint(serverIDOffset)
serverID(serverIDOffset, taskID) == Uint(serverIDOffset + Uint(taskID))

\* GetGhostConfig: (GhostConfig, error).
GetGhostConfig(taskID, database, dataSource, secret, instanceUsers, tableName, statement, noop, serverIDOffset) ==
    LET unobfuscated == Unobfuscate(dataSource.obfuscatedPassword, secret)
    IN  IF unobfuscated.err # NilErr
        THEN [config |-> NoGhostConfig, err |-> unobfuscated.err]
        ELSE [config |->
                [serverID |-> serverID(serverIDOffset, taskID),
                 host |-> dataSource.host,
                 port |-> dataSource.port,
                 user |-> dataSource.username,
                 password |-> unobfuscated.password,
                 database |-> database.databaseName,
                 table |-> tableName,
                 alterStatement |-> statement,
                 socketFilename |->
                    getSocketFilename(taskID, database.uid, database.databaseName, tableName),
                 postponeFlagFilename |->
                    GetPostponeFlagFilename(taskID, database.uid, database.databaseName, tableName),
                 noop |-> noop,
                 isAWS |-> isAWS(instanceUsers)],
              err |-> NilErr]

\* strings.Fields and strings.Join with " ": the pieces without white space.
Fields(statement) == SelectSeq(statement, LAMBDA piece : piece # " ")

\* The gh-ost parser of an alter statement: "ALTER TABLE" is followed by the
\* table, or by the schema, "." and the table.
HasExplicitTable(statement) ==
    Len(statement) >= 3 /\ statement[1] = "ALTER" /\ statement[2] = "TABLE"
HasExplicitSchema(statement) ==
    HasExplicitTable(statement) /\ Len(statement) >= 5 /\ statement[4] = "."
GetExplicitSchema(statement) == <<statement[3]>>
GetExplicitTable(statement) ==
    IF HasExplicitSchema(statement) THEN <<statement[5]>> ELSE <<statement[3]>>

\* strconv.Atoi of the port.
Atoi(port) ==
    IF port = "3307" THEN [n |-> 3307, err |-> NilErr]
    ELSE [n |-> 0, err |-> Errorf("Internal", <<"invalid syntax">>)]

NoMigrationContext ==
    [isNil |-> TRUE, hostname |-> "", port |-> 0, cliUser |-> "", cliPassword |-> "",
     databaseName |-> <<>>, originalTableName |-> <<>>, alterStatement |-> <<>>,
     noop |-> FALSE, replicaServerId |-> 0, assumeRBR |-> FALSE,
     serveSocketFile |-> <<>>, postponeCutOverFlagFile |-> <<>>]

\* NewMigrationContext without the test of the table name.
NewMigrationContextKeepsEmptyTable(config) ==
    LET statement == Fields(config.alterStatement)
        configPort == Atoi(config.port)
        Fail(msg) == [context |-> NoMigrationContext, err |-> Errorf("Internal", msg)]
    IN  IF config.port # "" /\ configPort.err # NilErr
        THEN [context |-> NoMigrationContext,
              err |-> Wrapf(configPort.err, "failed to convert port from string to int")]
        ELSE IF statement = <<>>
        THEN Fail(<<"alterStatement must be provided and must not be empty">>)
        ELSE IF config.database = <<>> /\ ~HasExplicitSchema(statement)
        THEN Fail(<<"database must be provided and database name must not be empty">>)
        ELSE [context |->
                [isNil |-> FALSE,
                 hostname |-> config.host,
                 port |-> IF config.port # "" THEN configPort.n ELSE 3306,
                 cliUser |-> config.user,
                 cliPassword |-> config.password,
                 databaseName |-> IF config.database = <<>> THEN GetExplicitSchema(statement)
                                  ELSE config.database,
                 originalTableName |-> config.table,
                 alterStatement |-> statement,
                 noop |-> config.noop,
                 replicaServerId |-> config.serverID,
                 assumeRBR |-> config.isAWS,
                 serveSocketFile |-> config.socketFilename,
                 postponeCutOverFlagFile |-> config.postponeFlagFilename],
              err |-> NilErr]

\* NewMigrationContext: (*base.MigrationContext, error).
NewMigrationContext(config) ==
    LET statement == Fields(config.alterStatement)
        configPort == Atoi(config.port)
        Fail(msg) == [context |-> NoMigrationContext, err |-> Errorf("Internal", msg)]
    IN  IF config.port # "" /\ configPort.err # NilErr
        THEN [context |-> NoMigrationContext,
              err |-> Wrapf(configPort.err, "failed to convert port from string to int")]
        ELSE IF statement = <<>>
        THEN Fail(<<"alterStatement must be provided and must not be empty">>)
        ELSE IF config.database = <<>> /\ ~HasExplicitSchema(statement)
        THEN Fail(<<"database must be provided and database name must not be empty">>)
        ELSE IF config.table = <<>> /\ ~HasExplicitTable(statement)
        THEN Fail(<<"table must be provided and table name must not be empty">>)
        ELSE [context |->
                [isNil |-> FALSE,
                 hostname |-> config.host,
                 port |-> IF config.port # "" THEN configPort.n ELSE 3306,
                 cliUser |-> config.user,
                 cliPassword |-> config.password,
                 databaseName |-> IF config.database = <<>> THEN GetExplicitSchema(statement)
                                  ELSE config.database,
                 originalTableName |-> IF config.table = <<>> THEN GetExplicitTable(statement)
                                       ELSE config.table,
                 alterStatement |-> statement,
                 noop |-> config.noop,
                 replicaServerId |-> config.serverID,
                 assumeRBR |-> config.isAWS,
                 serveSocketFile |-> config.socketFilename,
                 postponeCutOverFlagFile |-> config.postponeFlagFilename],
              err |-> NilErr]

\* One use of the ghost configuration: the arguments of GetGhostConfig, then
\* its result, then the result of NewMigrationContext on that configuration.
GhostRun(taskID, database, dataSource, instanceUsers, tableName, statement) ==
    [pc |-> "start", taskID |-> taskID, database |-> database, dataSource |-> dataSource,
     instanceUsers |-> instanceUsers, tableName |-> tableName, statement |-> statement,
     config |-> NoGhostConfig, configErr |-> NilErr,
     context |-> NoMigrationContext, contextErr |-> NilErr]
IdleGhost == [serverIDOffset |-> 0, runs |-> <<>>]

\* ------------------------------------------------------ statement rendering
IdleRender == [templateStatement |-> <<>>, secrets |-> <<>>, called |-> FALSE, result |-> <<>>]

\* ------------------------------------------------- concurrent approval calls
\* A caller of SkipApprovalStepIfNeeded between two of its steps.
IdleSkipper ==
    [pc |-> "idle", step |-> 0, stepsSkipped |-> 0, old |-> <<>>, n |-> 0, err |-> NilErr]
IdleSkippers ==
    [users |-> <<>>, policy |-> [bindings |-> <<>>],
     callers |-> [w \in Workers |-> IdleSkipper], overlapped |-> FALSE]

\* A nil *storepb.IssuePayloadApproval, and the record of "no approval call yet".
NilApproval == [isNil |-> TRUE, findingDone |-> FALSE, findingError |-> "",
                templates |-> <<>>, approvers |-> <<>>]
NoApprovalCall ==
    [op |-> "none", users |-> <<>>, policy |-> [bindings |-> <<>>], before |-> NilApproval,
     step |-> 0, n |-> 0, ok |-> FALSE, err |-> NilErr]
IdleApproval == [approval |-> NilApproval, call |-> NoApprovalCall]

Init ==
    /\ history = <<>>
    /\ wk = [w \in Workers |-> IdleWorker]
    /\ calls = 0
    /\ ap = IdleApproval
    /\ gate = IdleGate
    /\ mx = IdleMatrix
    /\ gh = IdleGhost
    /\ rs = IdleRender
    /\ sw = IdleSkippers

\* -------------------------------------------------------------------- store
\* The records of one (instance, database, version), newest first.
RECURSIVE FindFrom(_, _, _, _)
FindFrom(h, i, db, version) ==
    IF i = 0 THEN <<>>
    ELSE IF h[i].db = db /\ h[i].version = version
         THEN <<i>> \o FindFrom(h, i - 1, db, version)
         ELSE FindFrom(h, i - 1, db, version)

FindInstanceChangeHistoryList(h, db, version) == FindFrom(h, Len(h), db, version)

CreatePendingInstanceChangeHistory(h, prevSchema, m, storedVersion, statementRecord) ==
    Append(h, [db |-> m.db, version |-> storedVersion, issue |-> m.issue,
               status |-> "PENDING", prevSchema |-> prevSchema,
               schema |-> NoSchema, statement |-> statementRecord,
               duration |-> FALSE, finalized |-> 0])

\* only the fields set in the update message are written
UpdateInstanceChangeHistory(h, update) ==
    [h EXCEPT ![update.id] =
        [@ EXCEPT !.status = update.status,
                  !.duration = update.duration,
                  !.schema = IF update.schema = NoSchema THEN @ ELSE update.schema,
                  !.finalized = @ + 1]]

ToStoredVersion(version) ==
    IF version = 0 THEN [version |-> 0, err |-> Errorf("Internal", MsgBadVersion)]
    ELSE [version |-> version, err |-> NilErr]

MaxSheetSize == 1

TruncateString(statement, limit) ==
    IF Len(statement) > limit THEN SubSeq(statement, 1, limit) ELSE statement

\* -------------------------------------------------------------- coordinator
Upd(w, r) == wk' = [wk EXCEPT ![w] = r]

\* Mutant of Return: the deferred EndMigration is not run on return.
ReturnSkipsEnd(r, id, schema, err) ==
    [r EXCEPT !.migrationHistoryID = id, !.updatedSchema = schema, !.resErr = err,
              !.pc = "done"]

\* `return id, schema, err` of ExecuteMigrationWithFunc: sets the named
\* results; the deferred EndMigration runs next when it has been registered.
Return(r, id, schema, err) ==
    [r EXCEPT !.migrationHistoryID = id, !.updatedSchema = schema, !.resErr = err,
              !.pc = IF r.began THEN "end" ELSE "done"]

\* A caller starts ExecuteMigrationWithFunc(ctx, s, driver, m, statement, execFunc).
Call(w) ==
    /\ wk[w].pc = "idle"
    /\ calls < MaxCalls
    /\ \E db \in DatabaseIDs, version \in Versions, issue \in Issues,
          force \in BOOLEAN, type \in MigrationTypes, statement \in Statements :
          Upd(w, [IdleWorker EXCEPT
                    !.pc = "dump",
                    !.m = [db |-> db, version |-> version, issue |-> issue,
                           force |-> force, type |-> type],
                    !.statement = statement])
    /\ calls' = calls + 1
    /\ UNCHANGED history

\* driver.Dump of the schema before the migration
PreDump(w) ==
    /\ wk[w].pc = "dump"
    /\ \/ \E s \in PrevSchemas : Upd(w, [wk[w] EXCEPT !.prevSchema = s, !.pc = "begin"])
       \/ \E e \in DumpErrors :
             Upd(w, Return(wk[w], 0, "", Errorf("Internal", e.msg)))
    /\ UNCHANGED <<history, calls>>

\* Mutant of BeginFailed: MigrationAlreadyApplied is not told apart from the
\* other errors of BeginMigration.
BeginFailedAlwaysError(r, id, err) ==
    Return([r EXCEPT !.beginID = id, !.beginErr = err, !.insertedID = id],
           0, "", Wrapf(err, "failed to begin migration for issue"))

\* What ExecuteMigrationWithFunc does with a failed BeginMigration.
BeginFailed(r, id, err) ==
    LET r1 == [r EXCEPT !.beginID = id, !.beginErr = err, !.insertedID = id]
    IN IF ErrorCode(err) = "MigrationAlreadyApplied"
       THEN Return(r1, id, r.prevSchema, NilErr)
       ELSE Return(r1, 0, "", Wrapf(err, "failed to begin migration for issue"))

\* BeginMigration returned id without error: the deferred EndMigration is
\* registered and doMigrate is computed.
BeginSucceeded(r, id) ==
    [r EXCEPT !.beginID = id, !.beginErr = NilErr, !.insertedID = id,
              !.began = TRUE,
              !.doMigrate = ~(r.statement = <<>> \/ r.m.type = "BASELINE"),
              !.pc = "exec"]

\* Mutant of BeginSwitch: a forced migration falls through to the insert when
\* the version is DONE by another issue.
BeginSwitchInsertOverDone(r, id, rec) ==
    CASE rec.status = "DONE" ->
            IF rec.issue # r.m.issue
            THEN IF r.m.force
                 THEN [r EXCEPT !.pc = "insert"]
                 ELSE BeginFailed(r, id, Errorf("MigrationFailed", MsgAppliedByIssue))
            ELSE BeginFailed(r, id, Errorf("MigrationAlreadyApplied", MsgApplied))
      [] rec.status = "PENDING" ->
            IF r.m.force
            THEN BeginSucceeded(r, id)
            ELSE BeginFailed(r, 0, [Errorf("MigrationPending", MsgInProgress)
                                      EXCEPT !.wrap = "wrap"])
      [] rec.status = "FAILED" ->
            IF r.m.force
            THEN BeginSucceeded(r, id)
            ELSE BeginFailed(r, 0, [Errorf("MigrationFailed", MsgHasFailed)
                                      EXCEPT !.wrap = "wrap"])
      [] OTHER -> [r EXCEPT !.pc = "insert"]

\* Mutant of BeginSwitch: Force is honoured before the status is looked at,
\* so a forced migration reuses a DONE record too.
BeginSwitchForceReusesDone(r, id, rec) ==
    IF r.m.force
    THEN BeginSucceeded(r, id)
    ELSE CASE rec.status = "DONE" ->
                 IF rec.issue # r.m.issue
                 THEN BeginFailed(r, id, Errorf("MigrationFailed", MsgAppliedByIssue))
                 ELSE BeginFailed(r, id, Errorf("MigrationAlreadyApplied", MsgApplied))
           [] rec.status = "PENDING" ->
                 BeginFailed(r, 0, [Errorf("MigrationPending", MsgInProgress)
                                      EXCEPT !.wrap = "wrap"])
           [] rec.status = "FAILED" ->
                 BeginFailed(r, 0, [Errorf("MigrationFailed", MsgHasFailed)
                                      EXCEPT !.wrap = "wrap"])
           [] OTHER -> [r EXCEPT !.pc = "insert"]

\* Mutant of BeginSwitch: a forced migration over a FAILED record ignores the
\* record and goes on to insert a new one.
BeginSwitchForceInsertsOnFailed(r, id, rec) ==
    CASE rec.status = "DONE" ->
            IF rec.issue # r.m.issue
            THEN BeginFailed(r, id, Errorf("MigrationFailed", MsgAppliedByIssue))
            ELSE BeginFailed(r, id, Errorf("MigrationAlreadyApplied", MsgApplied))
      [] rec.status = "PENDING" ->
            IF r.m.force
            THEN BeginSucceeded(r, id)
            ELSE BeginFailed(r, 0, [Errorf("MigrationPending", MsgInProgress)
                                      EXCEPT !.wrap = "wrap"])
      [] rec.status = "FAILED" ->
            IF r.m.force
            THEN [r EXCEPT !.pc = "insert"]
            ELSE BeginFailed(r, 0, [Errorf("MigrationFailed", MsgHasFailed)
                                      EXCEPT !.wrap = "wrap"])
      [] OTHER -> [r EXCEPT !.pc = "insert"]

\* The switch of BeginMigration on the newest record of the version.
BeginSwitch(r, id, rec) ==
    CASE rec.status = "DONE" ->
            IF rec.issue # r.m.issue
            THEN BeginFailed(r, id, Errorf("MigrationFailed", MsgAppliedByIssue))
            ELSE BeginFailed(r, id, Errorf("MigrationAlreadyApplied", MsgApplied))
      [] rec.status = "PENDING" ->
            IF r.m.force
            THEN BeginSucceeded(r, id)
            ELSE BeginFailed(r, 0, [Errorf("MigrationPending", MsgInProgress)
                                      EXCEPT !.wrap = "wrap"])
      [] rec.status = "FAILED" ->
            IF r.m.force
            THEN BeginSucceeded(r, id)
            ELSE BeginFailed(r, 0, [Errorf("MigrationFailed", MsgHasFailed)
                                      EXCEPT !.wrap = "wrap"])
      [] OTHER -> [r EXCEPT !.pc = "insert"]

\* BeginMigration, phase 1: the stored version and the pre-check.
BeginCheck(w) ==
    /\ wk[w].pc = "begin"
    /\ LET r == wk[w]
           sv == ToStoredVersion(r.m.version)
           list == FindInstanceChangeHistoryList(history, r.m.db, sv.version)
       IN IF sv.err # NilErr
          THEN Upd(w, BeginFailed(r, 0, Wrapf(sv.err, "failed to convert to stored version")))
          ELSE \/ Upd(w, BeginFailed(r, 0,
                        Wrapf(Errorf("Internal", MsgStore), "failed to check duplicate version")))
               \/ IF Len(list) > 0
                  THEN LET migrationHistory == history[list[1]]
                       IN Upd(w, BeginSwitch([r EXCEPT !.found = list[1],
                                                       !.foundStatus = migrationHistory.status,
                                                       !.foundIssue = migrationHistory.issue],
                                             list[1], migrationHistory))
                  ELSE Upd(w, [r EXCEPT !.pc = "insert"])
    /\ UNCHANGED <<history, calls>>

\* Mutant of BeginInsert: the statement is rendered before it is recorded.
BeginInsertStoresRendered(w) ==
    /\ wk[w].pc = "insert"
    /\ LET r == wk[w]
           storedVersion == ToStoredVersion(r.m.version).version
       IN \/ \E materials \in SecretMaps :
             /\ history' = CreatePendingInstanceChangeHistory(
                               history, r.prevSchema, r.m, storedVersion,
                               TruncateString(RenderStatement(r.statement, materials),
                                              MaxSheetSize))
             /\ Upd(w, BeginSucceeded(r, Len(history) + 1))
          \/ /\ Upd(w, BeginFailed(r, 0, Errorf("Internal", MsgStore)))
             /\ UNCHANGED history
    /\ UNCHANGED calls

\* BeginMigration, phase 2: record the migration as PENDING.
BeginInsert(w) ==
    /\ wk[w].pc = "insert"
    /\ LET r == wk[w]
           storedVersion == ToStoredVersion(r.m.version).version
           statementRecord == TruncateString(r.statement, MaxSheetSize)
       IN \/ /\ history' = CreatePendingInstanceChangeHistory(
                               history, r.prevSchema, r.m, storedVersion, statementRecord)
             /\ Upd(w, BeginSucceeded(r, Len(history) + 1))
          \/ /\ Upd(w, BeginFailed(r, 0, Errorf("Internal", MsgStore)))
             /\ UNCHANGED history
    /\ UNCHANGED calls

\* Phase 3: render the statement and run execFunc, unless doMigrate is false.
Execute(w) ==
    /\ wk[w].pc = "exec"
    /\ LET r == wk[w]
       IN IF ~r.doMigrate
          THEN Upd(w, [r EXCEPT !.pc = "postdump"])
          ELSE \E execOK \in BOOLEAN :
               LET ran(r1, arg) ==
                       IF execOK
                       THEN [r1 EXCEPT !.execArg = arg, !.pc = "postdump"]
                       ELSE Return([r1 EXCEPT !.execArg = arg,
                                              !.execErr = Errorf("Internal", MsgExec)],
                                   0, "", Errorf("Internal", MsgExec))
               IN IF r.m.db # 0
                  THEN \/ Upd(w, Return(r, 0, "", Errorf("Internal", MsgStore)))
                       \/ Upd(w, Return(r, 0, "", Errorf("Internal", MsgDatabaseGone)))
                       \/ \E materials \in SecretMaps :
                             Upd(w, ran([r EXCEPT !.rendered = TRUE],
                                        RenderStatement(r.statement, materials)))
                  ELSE Upd(w, ran(r, r.statement))
    /\ UNCHANGED <<history, calls>>

\* Phase 4: driver.Dump of the schema after the migration.
PostDump(w) ==
    /\ wk[w].pc = "postdump"
    /\ LET r == wk[w]
       IN \/ \E s \in Schemas :
               Upd(w, Return([r EXCEPT !.postDump = "ok", !.postSchema = s],
                             r.insertedID, s, NilErr))
          \/ \E e \in DumpErrors :
               LET r1 == [r EXCEPT !.postDump = IF e.dropped THEN "dropped" ELSE "error"]
               IN IF Contains(e.msg, "not found")
                  THEN Upd(w, Return(r1, r.insertedID, "", NilErr))
                  ELSE Upd(w, Return(r1, 0, "", Errorf("Internal", e.msg)))
    /\ UNCHANGED <<history, calls>>

\* The update message EndMigration builds.
EndMigrationUpdate(insertedID, updatedSchema, isDone) ==
    IF isDone
    THEN [id |-> insertedID, status |-> "DONE", schema |-> updatedSchema, duration |-> TRUE]
    ELSE [id |-> insertedID, status |-> "FAILED", schema |-> NoSchema, duration |-> TRUE]

\* The deferred function: EndMigration, whose error is only logged.
EndMigration(w) ==
    /\ wk[w].pc = "end"
    /\ LET r == wk[w]
           update == EndMigrationUpdate(r.insertedID, r.updatedSchema, r.resErr = NilErr)
           r1 == [r EXCEPT !.endCalled = TRUE, !.endUpdate = update, !.pc = "done"]
       IN \/ /\ history' = UpdateInstanceChangeHistory(history, update)
             /\ Upd(w, r1)
          \/ /\ Upd(w, [r1 EXCEPT !.endErr = Errorf("Internal", MsgStore)])
             /\ UNCHANGED history
    /\ UNCHANGED calls

\* The call has returned to its caller.
Finish(w) ==
    /\ wk[w].pc = "done"
    /\ Upd(w, IdleWorker)
    /\ UNCHANGED <<history, calls>>

\* The state of the other components, which a migration step leaves alone.
others == <<ap, gate, mx, gh, rs, sw>>

\* Serialized calls: a worker steps only while no other call is running.
Serialized(w) == \A v \in Workers \ {w} : wk[v].pc = "idle"

Next ==
    \/ \E w \in Workers : Serialized(w) /\ Call(w) /\ UNCHANGED others
    \/ \E w \in Workers : Serialized(w) /\ PreDump(w) /\ UNCHANGED others
    \/ \E w \in Workers : Serialized(w) /\ BeginCheck(w) /\ UNCHANGED others
    \/ \E w \in Workers : Serialized(w) /\ BeginInsert(w) /\ UNCHANGED others
    \/ \E w \in Workers : Serialized(w) /\ Execute(w) /\ UNCHANGED others
    \/ \E w \in Workers : Serialized(w) /\ PostDump(w) /\ UNCHANGED others
    \/ \E w \in Workers : Serialized(w) /\ EndMigration(w) /\ UNCHANGED others
    \/ \E w \in Workers : Serialized(w) /\ Finish(w) /\ UNCHANGED others

Spec == Init /\ [][Next]_vars

\* Concurrent workers: the steps of the calls interleave in any order.
NextConcurrent ==
    \/ \E w \in Workers : Call(w) /\ UNCHANGED others
    \/ \E w \in Workers : PreDump(w) /\ UNCHANGED others
    \/ \E w \in Workers : BeginCheck(w) /\ UNCHANGED others
    \/ \E w \in Workers : BeginInsert(w) /\ UNCHANGED others
    \/ \E w \in Workers : Execute(w) /\ UNCHANGED others
    \/ \E w \in Workers : PostDump(w) /\ UNCHANGED others
    \/ \E w \in Workers : EndMigration(w) /\ UNCHANGED others
    \/ \E w \in Workers : Finish(w) /\ UNCHANGED others

SpecConcurrent == Init /\ [][NextConcurrent]_vars

\* ========================================================== approval engine
\* An approval step, its nodes and a node's payload (a group value, a role, or
\* none of the known variants).
ApprovalStep_ANY == "ANY"
ApprovalNode_ANY_IN_GROUP == "ANY_IN_GROUP"
GroupValue(v) == [kind |-> "GroupValue", value |-> <<v>>]
Role(r) == [kind |-> "Role", value |-> r]
NoPayload == [kind |-> "nil", value |-> <<>>]
Node(type, payload) == [type |-> type, payload |-> payload]
Step(type, nodes) == [type |-> type, nodes |-> nodes]
AnyInGroup(payload) == Step(ApprovalStep_ANY, <<Node(ApprovalNode_ANY_IN_GROUP, payload)>>)

\* convertToRoleName: "roles/" + role, as the pair of its two parts.
convertToRoleName(role) == <<"roles", role>>

\* Steps of the expected shape, and steps of every invalid shape.
ValidSteps ==
    {AnyInGroup(GroupValue(g)) :
        g \in {"WORKSPACE_OWNER", "WORKSPACE_DBA", "PROJECT_OWNER", "PROJECT_MEMBER"}}
    \cup {AnyInGroup(Role(convertToRoleName("QA")))}
InvalidSteps ==
    {Step(ApprovalStep_ANY, <<>>),
     Step(ApprovalStep_ANY, <<Node(ApprovalNode_ANY_IN_GROUP, GroupValue("WORKSPACE_OWNER")),
                              Node(ApprovalNode_ANY_IN_GROUP, GroupValue("WORKSPACE_DBA"))>>),
     Step("ALL", <<Node(ApprovalNode_ANY_IN_GROUP, GroupValue("WORKSPACE_OWNER"))>>),
     Step(ApprovalStep_ANY, <<Node("TYPE_UNSPECIFIED", GroupValue("WORKSPACE_OWNER"))>>),
     AnyInGroup(GroupValue("GROUP_VALUE_UNSPECIFILED")),
     AnyInGroup(GroupValue("GROUP_VALUE_99")),
     AnyInGroup(NoPayload)}
Steps == ValidSteps \cup InvalidSteps

\* The most steps of one approval template.
MaxSteps == 2

RECURSIVE SeqsUpTo(_, _)
SeqsUpTo(S, n) ==
    IF n = 0 THEN {<<>>}
    ELSE LET shorter == SeqsUpTo(S, n - 1)
         IN  shorter \cup {Append(q, x) : q \in {r \in shorter : Len(r) = n - 1}, x \in S}

\* Templates of up to MaxSteps steps: any step last, and before it steps that
\* the workspace owner approves or that are of no known shape.
EarlierSteps == {AnyInGroup(GroupValue("WORKSPACE_OWNER")), AnyInGroup(NoPayload)}
Template(steps) == [flow |-> [steps |-> steps]]
Templates ==
    {Template(<<>>)} \cup
    {Template(Append(earlier, last)) :
        earlier \in SeqsUpTo(EarlierSteps, MaxSteps - 1), last \in Steps}

\* Approvers: a user's decision on a step, or the system bot's approval.
SystemBotID == 1
Approver(status, principalID) == [status |-> status, principalID |-> principalID]
BotApprover == Approver("APPROVED", SystemBotID)
\* The approvers recorded by users: approvals, the last one possibly pending.
UserApproverLists(n) ==
    LET approved == SeqsUpTo({Approver("APPROVED", 101)}, n)
    IN  approved \cup
        {[q EXCEPT ![Len(q)] = Approver("PENDING", 101)] : q \in approved \ {<<>>}}

\* The users of the workspace roles and the project's policy bindings.
User(role) == [role |-> role]
Binding(role, members) == [role |-> role, members |-> members]
Policy(bindings) == [bindings |-> bindings]
UserLists == {<<>>, <<User("OWNER")>>, <<User("DBA")>>, <<User("OWNER"), User("DBA")>>}
Policies ==
    {Policy(<<>>),
     Policy(<<Binding("OWNER", {101})>>),
     Policy(<<Binding("OWNER", {})>>),
     Policy(<<Binding("DEVELOPER", {102})>>),
     Policy(<<Binding("OWNER", {101}), Binding("QA", {103})>>)}

\* Mutants of FindNextPendingStep: one step too early; the last step once more.
FindNextPendingStepOffByOne(template, approvers) ==
    IF Len(approvers) >= Len(template.flow.steps) THEN 0
    ELSE Len(approvers)

FindNextPendingStepRepeatsLast(template, approvers) ==
    IF Len(approvers) > Len(template.flow.steps) THEN 0
    ELSE IF Len(approvers) = Len(template.flow.steps) THEN Len(approvers)
    ELSE Len(approvers) + 1

\* FindNextPendingStep: the 1-based position of the next pending step of the
\* template (the code's Steps[len(approvers)]), 0 for nil.
FindNextPendingStep(template, approvers) ==
    IF Len(approvers) >= Len(template.flow.steps) THEN 0
    ELSE Len(approvers) + 1

\* Mutant of CheckApprovalApproved: the template count is checked first.
CheckApprovalApprovedTemplatesFirst(approval) ==
    IF approval.isNil THEN [ok |-> FALSE, err |-> NilErr]
    ELSE IF Len(approval.templates) > 1
         THEN [ok |-> FALSE, err |-> Errorf("Internal", <<"expecting one approval template">>)]
    ELSE IF ~approval.findingDone \/ approval.findingError # ""
         THEN [ok |-> FALSE, err |-> NilErr]
    ELSE IF Len(approval.templates) = 0 THEN [ok |-> TRUE, err |-> NilErr]
    ELSE [ok |-> Len(approval.approvers) >= Len(approval.templates[1].flow.steps),
          err |-> NilErr]

\* CheckApprovalApproved: (bool, error).
CheckApprovalApproved(approval) ==
    IF approval.isNil \/ ~approval.findingDone THEN [ok |-> FALSE, err |-> NilErr]
    ELSE IF approval.findingError # "" THEN [ok |-> FALSE, err |-> NilErr]
    ELSE IF Len(approval.templates) = 0 THEN [ok |-> TRUE, err |-> NilErr]
    ELSE IF Len(approval.templates) # 1
         THEN [ok |-> FALSE,
               err |-> Errorf("Internal", <<"expecting one approval template">>)]
    ELSE [ok |-> FindNextPendingStep(approval.templates[1], approval.approvers) = 0,
          err |-> NilErr]

\* The project roles that some binding grants to at least one member.
projectRoleExist(policy) ==
    {convertToRoleName(policy.bindings[i].role) :
        i \in {j \in DOMAIN policy.bindings : Cardinality(policy.bindings[j].members) > 0}}

\* userCanApprove: (bool, error).
userCanApprove(step, users, policy) ==
    LET hasOwner == \E i \in DOMAIN users : users[i].role = "OWNER"
        hasDBA == \E i \in DOMAIN users : users[i].role = "DBA"
        node == step.nodes[1]
        val == node.payload.value
        InvalidGroup == [ok |-> FALSE, err |-> Errorf("Internal", <<"invalid group value">>)]
    IN  IF Len(step.nodes) # 1
        THEN [ok |-> FALSE, err |-> Errorf("Internal", <<"expecting one node">>)]
        ELSE IF step.type # ApprovalStep_ANY
        THEN [ok |-> FALSE, err |-> Errorf("Internal", <<"expecting ANY step type">>)]
        ELSE IF node.type # ApprovalNode_ANY_IN_GROUP
        THEN [ok |-> FALSE, err |-> Errorf("Internal", <<"expecting ANY_IN_GROUP node type">>)]
        ELSE CASE node.payload.kind = "GroupValue" ->
                    CASE val = <<"GROUP_VALUE_UNSPECIFILED">> -> InvalidGroup
                      [] val = <<"WORKSPACE_OWNER">> -> [ok |-> hasOwner, err |-> NilErr]
                      [] val = <<"WORKSPACE_DBA">> -> [ok |-> hasDBA, err |-> NilErr]
                      [] val = <<"PROJECT_OWNER">> ->
                            [ok |-> convertToRoleName("OWNER") \in projectRoleExist(policy), err |-> NilErr]
                      [] val = <<"PROJECT_MEMBER">> ->
                            [ok |-> convertToRoleName("DEVELOPER") \in projectRoleExist(policy), err |-> NilErr]
                      [] OTHER -> InvalidGroup
               [] node.payload.kind = "Role" ->
                    [ok |-> val \in projectRoleExist(policy), err |-> NilErr]
               [] OTHER -> [ok |-> FALSE, err |-> Errorf("Internal", <<"invalid node payload type">>)]

\* Mutant of SkipLoop: a step whose shape cannot be checked is skipped.
RECURSIVE SkipLoopSkipsInvalid(_, _, _, _, _)
SkipLoopSkipsInvalid(template, approvers, users, policy, stepsSkipped) ==
    LET step == IF Len(approvers) >= Len(template.flow.steps) THEN 0 ELSE Len(approvers) + 1
        can == userCanApprove(template.flow.steps[step], users, policy)
    IN  IF step = 0
        THEN [approvers |-> approvers, n |-> stepsSkipped, err |-> NilErr]
        ELSE IF can.err = NilErr /\ can.ok
        THEN [approvers |-> approvers, n |-> stepsSkipped, err |-> NilErr]
        ELSE SkipLoopSkipsInvalid(template, Append(approvers, BotApprover), users, policy,
                                  stepsSkipped + 1)

\* The loop of SkipApprovalStepIfNeeded: the approvers it leaves, and its
\* (int, error) result.
RECURSIVE SkipLoop(_, _, _, _, _)
SkipLoop(template, approvers, users, policy, stepsSkipped) ==
    LET step == FindNextPendingStep(template, approvers)
        can == userCanApprove(template.flow.steps[step], users, policy)
    IN  IF step = 0
        THEN [approvers |-> approvers, n |-> stepsSkipped, err |-> NilErr]
        ELSE IF can.err # NilErr
        THEN [approvers |-> approvers, n |-> 0,
              err |-> Wrapf(can.err, "failed to check if user can approve")]
        ELSE IF can.ok
        THEN [approvers |-> approvers, n |-> stepsSkipped, err |-> NilErr]
        ELSE SkipLoop(template, Append(approvers, BotApprover), users, policy, stepsSkipped + 1)

\* The approvals an issue may carry: none, or a finding with zero, one or two
\* templates and the approvers recorded so far.
SecondTemplate == Template(<<AnyInGroup(GroupValue("WORKSPACE_DBA"))>>)
TemplateLists ==
    {<<>>} \cup {<<t>> : t \in Templates} \cup {<<t, SecondTemplate>> : t \in Templates}
StepCount(templates) == IF Len(templates) = 0 THEN 0 ELSE Len(templates[1].flow.steps)
Approvals ==
    {NilApproval} \cup
    UNION {{[isNil |-> FALSE, findingDone |-> f[1], findingError |-> f[2],
             templates |-> ts, approvers |-> as] :
                f \in {<<FALSE, "">>, <<TRUE, "">>, <<TRUE, "no rule">>},
                as \in UserApproverLists(StepCount(ts) + 1)} : ts \in TemplateLists}

InitApproval ==
    /\ history = <<>>
    /\ wk = [w \in Workers |-> IdleWorker]
    /\ calls = 0
    /\ ap \in {[approval |-> a, call |-> NoApprovalCall] : a \in Approvals}
    /\ gate = IdleGate
    /\ mx = IdleMatrix
    /\ gh = IdleGhost
    /\ rs = IdleRender
    /\ sw = IdleSkippers

\* SkipApprovalStepIfNeeded on the issue's approval: the store answers with the
\* project policy and the first user of each workspace role, or fails.
SkipApprovalStepIfNeeded(approval, store, users, policy) ==
    LET call == [NoApprovalCall EXCEPT !.op = "SkipApprovalStepIfNeeded", !.before = approval]
        loop == SkipLoop(approval.templates[1], approval.approvers, users, policy, 0)
    IN  IF Len(approval.templates) = 0
        THEN [approval |-> approval, call |-> call]
        ELSE IF store = "GetProjectPolicy fails"
        THEN [approval |-> approval,
              call |-> [call EXCEPT !.policy = policy, !.err = Wrapf(Errorf("Internal", MsgStore),
                                                  "failed to get project policy for project")]]
        ELSE IF store = "ListUsers fails"
        THEN [approval |-> approval,
              call |-> [call EXCEPT !.policy = policy,
                                    !.err = Wrapf(Errorf("Internal", MsgStore),
                                                  "failed to list users for role")]]
        ELSE [approval |-> [approval EXCEPT !.approvers = loop.approvers],
              call |-> [call EXCEPT !.users = users, !.policy = policy,
                                    !.n = loop.n, !.err = loop.err]]

SkipApprovalStepIfNeededCall ==
    /\ ~ap.approval.isNil
    /\ \/ ap' = SkipApprovalStepIfNeeded(ap.approval, "GetProjectPolicy fails", <<>>, Policy(<<>>))
       \/ \E policy \in Policies :
            ap' = SkipApprovalStepIfNeeded(ap.approval, "ListUsers fails", <<>>, policy)
       \/ \E users \in UserLists, policy \in Policies :
            ap' = SkipApprovalStepIfNeeded(ap.approval, "ok", users, policy)
    /\ UNCHANGED <<history, wk, calls, gate, mx, gh, rs, sw>>

CheckApprovalApprovedCall ==
    /\ LET res == CheckApprovalApproved(ap.approval)
       IN  ap' = [ap EXCEPT !.call = [NoApprovalCall EXCEPT !.op = "CheckApprovalApproved",
                                                           !.before = ap.approval,
                                                           !.ok = res.ok, !.err = res.err]]
    /\ UNCHANGED <<history, wk, calls, gate, mx, gh, rs, sw>>

FindNextPendingStepCall ==
    /\ Len(ap.approval.templates) > 0
    /\ ap' = [ap EXCEPT !.call =
                [NoApprovalCall EXCEPT !.op = "FindNextPendingStep", !.before = ap.approval,
                    !.step = FindNextPendingStep(ap.approval.templates[1], ap.approval.approvers)]]
    /\ UNCHANGED <<history, wk, calls, gate, mx, gh, rs, sw>>

NextApproval ==
    \/ SkipApprovalStepIfNeededCall
    \/ CheckApprovalApprovedCall
    \/ FindNextPendingStepCall

SpecApproval == InitApproval /\ [][NextApproval]_vars

\* ---------------------------------------------------- task gate calls
\* Inputs of passCheck: up to MaxCheckRuns runs with distinct ids in any order,
\* of the requested type or another one, done or not, with any payload.
MaxCheckRuns == 2
ResultPayloads ==
    {Malformed, Payload(<<>>), Payload(<<"SUCCESS">>), Payload(<<"WARN">>),
     Payload(<<"SUCCESS", "ERROR">>)}
CheckRuns ==
    {TaskCheckRun(id, 1, type, status, result) :
        id \in 1..MaxCheckRuns,
        type \in {TaskCheckDatabaseConnect, TaskCheckDatabaseStatementSyntax},
        status \in TaskCheckRunStatuses, result \in ResultPayloads}
CheckRunLists ==
    {runs \in SeqsUpTo(CheckRuns, MaxCheckRuns) :
        \A i, j \in DOMAIN runs : i # j => runs[i].id # runs[j].id}

InitPassCheck ==
    /\ history = <<>>
    /\ wk = [w \in Workers |-> IdleWorker]
    /\ calls = 0
    /\ ap = IdleApproval
    /\ gate \in {[IdleGate EXCEPT !.taskCheckRuns = runs, !.checkType = type,
                                  !.allowedStatus = allowed] :
                    runs \in CheckRunLists,
                    type \in {TaskCheckDatabaseConnect, TaskCheckDatabaseStatementSyntax},
                    allowed \in {"SUCCESS", "WARN"}}
    /\ mx = IdleMatrix
    /\ gh = IdleGhost
    /\ rs = IdleRender
    /\ sw = IdleSkippers

passCheckCall ==
    /\ gate.call.op = "none"
    /\ LET res == passCheck(gate.taskCheckRuns, gate.checkType, gate.allowedStatus)
       IN  gate' = [gate EXCEPT !.call = [op |-> "passCheck", pass |-> res.pass, err |-> res.err]]
    /\ UNCHANGED <<history, wk, calls, ap, mx, gh, rs, sw>>

SpecPassCheck == InitPassCheck /\ [][passCheckCall]_vars

\* Inputs of PassAllCheck: for each check type the task has no run or a run
\* that reports SUCCESS or WARN, the connect run may also report ERROR or have
\* an undecodable payload; another task has up to MaxOtherRuns newer passing runs of one
\* check type.
MaxOtherRuns == 1
OwnRuns ==
    {own \in [DOMAIN TaskCheckTypes -> {"absent", "SUCCESS", "WARN", "ERROR", "malformed"}] :
        \A k \in DOMAIN TaskCheckTypes : own[k] \in {"ERROR", "malformed"} => k = 1}
OtherRuns == {[type |-> t, n |-> n] : t \in DOMAIN TaskCheckTypes, n \in 0..MaxOtherRuns}
    \ {[type |-> t, n |-> 0] : t \in DOMAIN TaskCheckTypes \ {1}}
TaskCheckRunsOf(own, other) ==
    LET count == Len(TaskCheckTypes)
        present == SelectSeq([k \in 1..count |-> k], LAMBDA k : own[k] # "absent")
        ownRuns == [i \in DOMAIN present |->
                        TaskCheckRun(present[i], 1, TaskCheckTypes[present[i]], TaskCheckRunDone,
                                     IF own[present[i]] = "malformed" THEN Malformed
                                     ELSE Payload(<<own[present[i]]>>))]
        otherRuns == [i \in 1..other.n |->
                        TaskCheckRun(count + i, 1 + i, TaskCheckTypes[other.type],
                                     TaskCheckRunDone, Payload(<<"SUCCESS">>))]
    IN  ownRuns \o otherRuns

InitPassAllCheck ==
    /\ history = <<>>
    /\ wk = [w \in Workers |-> IdleWorker]
    /\ calls = 0
    /\ ap = IdleApproval
    /\ gate \in {[IdleGate EXCEPT !.task = Task(1, type), !.allowedStatus = allowed,
                                  !.engine = engine,
                                  !.taskCheckRuns = TaskCheckRunsOf(own, other)] :
                    type \in TaskTypes, allowed \in {"SUCCESS", "WARN"}, engine \in Engines,
                    own \in OwnRuns, other \in OtherRuns}
    /\ mx = IdleMatrix
    /\ gh = IdleGhost
    /\ rs = IdleRender
    /\ sw = IdleSkippers

PassAllCheckCall ==
    /\ gate.call.op = "none"
    /\ LET res == PassAllCheck(gate.task, gate.allowedStatus, gate.taskCheckRuns, gate.engine)
       IN  gate' = [gate EXCEPT !.call = [op |-> "PassAllCheck", pass |-> res.pass, err |-> res.err]]
    /\ UNCHANGED <<history, wk, calls, ap, mx, gh, rs, sw>>

SpecPassAllCheck == InitPassAllCheck /\ [][PassAllCheckCall]_vars

\* ---------------------------------------------------------- matrix calls
\* Inputs of the matrix: schedules of up to two deployments, each with a
\* selector, and up to MaxDatabases databases with distinct UIDs in any order.
MaxDatabases == 2
LabelSets ==
    {{}, {<<"env", "prod">>}, {<<"env", "dev">>}, {<<"env", "prod">>, <<"loc", "us">>}}
Selectors ==
    {<<>>,
     <<Expression("env", ExistsOperatorType, <<>>)>>,
     <<Expression("loc", ExistsOperatorType, <<>>)>>,
     <<Expression("env", InOperatorType, <<"prod">>)>>,
     <<Expression("env", InOperatorType, <<"dev", "prod">>)>>,
     <<Expression("env", "NotIn", <<"prod">>)>>,
     <<Expression("env", ExistsOperatorType, <<>>), Expression("loc", ExistsOperatorType, <<>>)>>,
     <<Expression("env", InOperatorType, <<"dev", "prod">>),
       Expression("env", InOperatorType, <<"prod">>)>>,
     <<Expression("env", ExistsOperatorType, <<>>), Expression("env", "NotIn", <<"prod">>)>>}
Schedules == {[deployments |-> ds] : ds \in SeqsUpTo(Selectors, 2)}
Databases ==
    {Database(uid, labels, syncState) :
        uid \in 1..MaxDatabases, labels \in LabelSets, syncState \in {"OK", NotFound}}
DatabaseLists ==
    {dbs \in SeqsUpTo(Databases, MaxDatabases) :
        \A i, j \in DOMAIN dbs : i # j => dbs[i].uid # dbs[j].uid}

InitMatrix ==
    /\ history = <<>>
    /\ wk = [w \in Workers |-> IdleWorker]
    /\ calls = 0
    /\ ap = IdleApproval
    /\ gate = IdleGate
    /\ mx \in {[IdleMatrix EXCEPT !.schedule = schedule, !.databaseList = databaseList] :
                    schedule \in Schedules, databaseList \in DatabaseLists}
    /\ gh = IdleGhost
    /\ rs = IdleRender
    /\ sw = IdleSkippers

\* Mutant of GetDatabaseMatrixCall: the caller's list is the slice that is sorted.
GetDatabaseMatrixCallSortsInput ==
    /\ mx.call.op = "none"
    /\ mx' = [mx EXCEPT !.databaseList = SortByUID(mx.databaseList),
                        !.call =
                [op |-> "GetDatabaseMatrixFromDeploymentSchedule",
                 matrix |-> GetDatabaseMatrixFromDeploymentSchedule(mx.schedule, mx.databaseList)]]
    /\ UNCHANGED <<history, wk, calls, ap, gate, gh, rs, sw>>

GetDatabaseMatrixCall ==
    /\ mx.call.op = "none"
    /\ mx' = [mx EXCEPT !.call =
                [op |-> "GetDatabaseMatrixFromDeploymentSchedule",
                 matrix |-> GetDatabaseMatrixFromDeploymentSchedule(mx.schedule, mx.databaseList)]]
    /\ UNCHANGED <<history, wk, calls, ap, gate, gh, rs, sw>>

SpecMatrix == InitMatrix /\ [][GetDatabaseMatrixCall]_vars

\* ------------------------------------------------------ ghost config calls
GhostDatabase(uid, databaseName) == [uid |-> uid, databaseName |-> databaseName]
DataSource(port, obfuscatedPassword) ==
    [host |-> "db.local", port |-> port, username |-> "bytebase",
     obfuscatedPassword |-> obfuscatedPassword]
AlterAddColumn == <<"ALTER", " ", "TABLE", " ", "t", " ", "ADD", " ", "COLUMN", " ", "c">>

\* GetGhostConfig on run i, with the run's arguments.
GetGhostConfigCall(i) ==
    /\ gh.runs[i].pc = "start"
    /\ LET run == gh.runs[i]
           res == GetGhostConfig(run.taskID, run.database, run.dataSource, "secret",
                                 run.instanceUsers, run.tableName, run.statement, FALSE,
                                 gh.serverIDOffset)
       IN  gh' = [gh EXCEPT !.runs[i] =
                    [run EXCEPT !.pc = IF res.err = NilErr THEN "config" ELSE "done",
                                !.config = res.config, !.configErr = res.err]]
    /\ UNCHANGED <<history, wk, calls, ap, gate, mx, rs, sw>>

\* NewMigrationContext on the configuration of run i.
NewMigrationContextCall(i) ==
    /\ gh.runs[i].pc = "config"
    /\ LET run == gh.runs[i]
           res == NewMigrationContext(run.config)
       IN  gh' = [gh EXCEPT !.runs[i] =
                    [run EXCEPT !.pc = "done", !.context = res.context, !.contextErr = res.err]]
    /\ UNCHANGED <<history, wk, calls, ap, gate, mx, rs, sw>>

NextGhost ==
    \/ \E i \in DOMAIN gh.runs : GetGhostConfigCall(i)
    \/ \E i \in DOMAIN gh.runs : NewMigrationContextCall(i)

\* Two migrations under one server id offset: task ids, databases and tables
\* vary, names may contain ".".
TaskIDs == {1, 5, 6}
ServerIDOffsets == {0, 1000, MaxServerID, UintModulus - 5}
GhostDatabases == {GhostDatabase(uid, name) : uid \in {1, 2}, name \in {<<"a">>, <<"a", ".", "b">>}}
GhostTables == {<<"c">>, <<"b", ".", "c">>}
KeyedRuns ==
    {GhostRun(taskID, database, DataSource("", "obfuscated"), <<>>, tableName, AlterAddColumn) :
        taskID \in TaskIDs, database \in GhostDatabases, tableName \in GhostTables}

InitGhostConfig ==
    /\ history = <<>>
    /\ wk = [w \in Workers |-> IdleWorker]
    /\ calls = 0
    /\ ap = IdleApproval
    /\ gate = IdleGate
    /\ mx = IdleMatrix
    /\ gh \in {[serverIDOffset |-> offset, runs |-> <<first, second>>] :
                    offset \in ServerIDOffsets, first \in KeyedRuns, second \in KeyedRuns}
    /\ rs = IdleRender
    /\ sw = IdleSkippers

SpecGhostConfig == InitGhostConfig /\ [][NextGhost]_vars

\* One migration: the alter statement, the explicit names, the port, the
\* password and the instance users vary.
AlterStatements ==
    {<<>>, <<" ">>, AlterAddColumn,
     <<"ALTER", " ", "TABLE", " ", "s", ".", "t", " ", "ADD", " ", "COLUMN", " ", "c">>,
     <<"ADD", " ", "COLUMN", " ", "c">>}
InstanceUserLists ==
    {<<>>,
     <<InstanceUser(RDSAdmin, <<"GRANT", "SELECT", "SUPER", "ON", "*.*">>)>>,
     <<InstanceUser(RDSAdmin, <<"GRANT", "SELECT", "ON", "*.*">>)>>,
     <<InstanceUser("'root'@'%'", <<"GRANT", "SUPER", "ON", "*.*">>)>>,
     <<InstanceUser("'root'@'%'", <<"GRANT", "SUPER", "ON", "*.*">>),
       InstanceUser(RDSAdmin, <<"GRANT", "SUPER", "ON", "*.*">>)>>}
ContextRuns ==
    {GhostRun(5, GhostDatabase(1, databaseName), DataSource(port, obfuscatedPassword),
              instanceUsers, tableName, statement) :
        databaseName \in {<<>>, <<"a">>}, port \in {"", "3307", "abc"},
        obfuscatedPassword \in {"obfuscated", "garbled"},
        instanceUsers \in InstanceUserLists, tableName \in {<<>>, <<"c">>},
        statement \in AlterStatements}

InitGhostContext ==
    /\ history = <<>>
    /\ wk = [w \in Workers |-> IdleWorker]
    /\ calls = 0
    /\ ap = IdleApproval
    /\ gate = IdleGate
    /\ mx = IdleMatrix
    /\ gh \in {[serverIDOffset |-> 1000, runs |-> <<run>>] : run \in ContextRuns}
    /\ rs = IdleRender
    /\ sw = IdleSkippers

SpecGhostContext == InitGhostContext /\ [][NextGhost]_vars

\* ------------------------------------------------- statement rendering calls
MaxTokens == 3
RenderTokens == {Text("a"), Blob, Placeholder("A"), Placeholder("B")}
RenderTemplates == UNION {[1..n -> RenderTokens] : n \in 0..MaxTokens}
\* A secret's value is any text: plain, empty, or text that reads as a placeholder.
SecretValues == {<<Text("x")>>, <<>>, <<Placeholder("B")>>}
RenderSecrets == UNION {[names -> SecretValues] : names \in SUBSET {"A", "B"}}

InitRender ==
    /\ history = <<>>
    /\ wk = [w \in Workers |-> IdleWorker]
    /\ calls = 0
    /\ ap = IdleApproval
    /\ gate = IdleGate
    /\ mx = IdleMatrix
    /\ gh = IdleGhost
    /\ rs \in {[templateStatement |-> template, secrets |-> secrets, called |-> FALSE,
                 result |-> <<>>] : template \in RenderTemplates, secrets \in RenderSecrets}
    /\ sw = IdleSkippers

RenderStatementCall ==
    /\ ~rs.called
    /\ rs' = [rs EXCEPT !.called = TRUE,
                        !.result = RenderStatement(rs.templateStatement, rs.secrets)]
    /\ UNCHANGED <<history, wk, calls, ap, gate, mx, gh, sw>>

SpecRender == InitRender /\ [][RenderStatementCall]_vars

\* ------------------------------------------- concurrent approval skip calls
\* Two callers run SkipApprovalStepIfNeeded on the same approval object, with
\* nothing between them but the object: a caller's steps are its accesses to
\* approval.Approvers. The store answers both callers alike.
SkipTemplates ==
    {Template(steps) :
        steps \in SeqsUpTo({AnyInGroup(GroupValue("WORKSPACE_OWNER")),
                            AnyInGroup(GroupValue("WORKSPACE_DBA")),
                            AnyInGroup(NoPayload)}, MaxSteps)}
SharedApprovals ==
    {[isNil |-> FALSE, findingDone |-> TRUE, findingError |-> "",
      templates |-> ts, approvers |-> as] :
        ts \in {<<>>} \cup {<<t>> : t \in SkipTemplates},
        as \in {<<>>, <<Approver("APPROVED", 101)>>}}

InitSkipConcurrent ==
    /\ history = <<>>
    /\ wk = [w \in Workers |-> IdleWorker]
    /\ calls = 0
    /\ ap \in {[approval |-> a, call |-> NoApprovalCall] : a \in SharedApprovals}
    /\ gate = IdleGate
    /\ mx = IdleMatrix
    /\ gh = IdleGhost
    /\ rs = IdleRender
    /\ sw \in {[IdleSkippers EXCEPT !.users = users] : users \in UserLists}

\* The caller's result, and whether another call is under way while w steps.
SkipReturn(r, n, err) == [r EXCEPT !.pc = "done", !.n = n, !.err = err]
Overlaps(w) == \E v \in Workers \ {w} : sw.callers[v].pc \notin {"idle", "done"}
SkipUpd(w, r) ==
    sw' = [sw EXCEPT !.callers[w] = r, !.overlapped = sw.overlapped \/ Overlaps(w)]

\* The call up to its loop: the template count, the policy and the users.
SkipStart(w) ==
    /\ sw.callers[w].pc = "idle"
    /\ LET r == sw.callers[w]
       IN  IF Len(ap.approval.templates) = 0
           THEN SkipUpd(w, SkipReturn(r, 0, NilErr))
           ELSE \/ SkipUpd(w, SkipReturn(r, 0, Wrapf(Errorf("Internal", MsgStore),
                                             "failed to get project policy for project")))
                \/ SkipUpd(w, SkipReturn(r, 0, Wrapf(Errorf("Internal", MsgStore),
                                             "failed to list users for role")))
                \/ SkipUpd(w, [r EXCEPT !.pc = "find"])
    /\ UNCHANGED <<history, wk, calls, ap, gate, mx, gh, rs>>

\* Mutant of SkipFind: the step is skipped whether or not a user can approve it.
SkipFindIgnoresApprover(w) ==
    /\ sw.callers[w].pc = "find"
    /\ LET r == sw.callers[w]
           step == FindNextPendingStep(ap.approval.templates[1], ap.approval.approvers)
       IN  IF step = 0
           THEN SkipUpd(w, SkipReturn(r, r.stepsSkipped, NilErr))
           ELSE SkipUpd(w, [r EXCEPT !.pc = "read", !.step = step,
                                     !.stepsSkipped = r.stepsSkipped + 1])
    /\ UNCHANGED <<history, wk, calls, ap, gate, mx, gh, rs>>

\* One turn of the loop up to the append: the next pending step is read from
\* the approvers as they are now, and userCanApprove decides on it.
SkipFind(w) ==
    /\ sw.callers[w].pc = "find"
    /\ LET r == sw.callers[w]
           step == FindNextPendingStep(ap.approval.templates[1], ap.approval.approvers)
           can == userCanApprove(ap.approval.templates[1].flow.steps[step], sw.users, sw.policy)
       IN  IF step = 0
           THEN SkipUpd(w, SkipReturn(r, r.stepsSkipped, NilErr))
           ELSE IF can.err # NilErr
           THEN SkipUpd(w, SkipReturn(r, 0, Wrapf(can.err, "failed to check if user can approve")))
           ELSE IF can.ok
           THEN SkipUpd(w, SkipReturn(r, r.stepsSkipped, NilErr))
           ELSE SkipUpd(w, [r EXCEPT !.pc = "read", !.step = step,
                                     !.stepsSkipped = r.stepsSkipped + 1])
    /\ UNCHANGED <<history, wk, calls, ap, gate, mx, gh, rs>>

\* append(approval.Approvers, ...): the slice is read ...
SkipRead(w) ==
    /\ sw.callers[w].pc = "read"
    /\ SkipUpd(w, [sw.callers[w] EXCEPT !.pc = "write", !.old = ap.approval.approvers])
    /\ UNCHANGED <<history, wk, calls, ap, gate, mx, gh, rs>>

\* Mutant of SkipWrite: the system bot's approval is appended twice.
SkipWriteAppendsTwo(w) ==
    /\ sw.callers[w].pc = "write"
    /\ ap' = [ap EXCEPT !.approval.approvers =
                Append(Append(sw.callers[w].old, BotApprover), BotApprover)]
    /\ SkipUpd(w, [sw.callers[w] EXCEPT !.pc = "find"])
    /\ UNCHANGED <<history, wk, calls, gate, mx, gh, rs>>

\* ... and the slice with the system bot's approval is assigned.
SkipWrite(w) ==
    /\ sw.callers[w].pc = "write"
    /\ ap' = [ap EXCEPT !.approval.approvers = Append(sw.callers[w].old, BotApprover)]
    /\ SkipUpd(w, [sw.callers[w] EXCEPT !.pc = "find"])
    /\ UNCHANGED <<history, wk, calls, gate, mx, gh, rs>>

NextSkipConcurrent ==
    \/ \E w \in Workers : SkipStart(w)
    \/ \E w \in Workers : SkipFind(w)
    \/ \E w \in Workers : SkipRead(w)
    \/ \E w \in Workers : SkipWrite(w)

SpecSkipConcurrent == InitSkipConcurrent /\ [][NextSkipConcurrent]_vars

\* One caller at a time, and a caller that can step does step: the loop of a
\* call runs on its own, as a goroutine that is never suspended for ever.
NextSkipSerial ==
    \/ \E w \in Workers : ~Overlaps(w) /\ SkipStart(w)
    \/ \E w \in Workers : ~Overlaps(w) /\ SkipFind(w)
    \/ \E w \in Workers : ~Overlaps(w) /\ SkipRead(w)
    \/ \E w \in Workers : ~Overlaps(w) /\ SkipWrite(w)

SpecSkipSerial == InitSkipConcurrent /\ [][NextSkipSerial]_vars /\ WF_vars(NextSkipSerial)

\* ================================================================== claims
SameTriple(a, b) == a.db = b.db /\ a.version = b.version

\* BeginMigration found the version DONE by the issue of this call.
Duplicate(r) == r.foundStatus = "DONE" /\ r.foundIssue = r.m.issue

\* BeginMigration, without Force, found a record that was not applied by the
\* issue of this call.
Refused(r) == ~r.m.force /\ r.found # 0 /\ ~Duplicate(r)

\* The error BeginMigration gives a call r without Force that finds record id
\* in the given status, applied by another issue.
BeginErrorFor(r, id, status) ==
    BeginSwitch(r, id, [history[id] EXCEPT !.status = status, !.issue = 0]).beginErr

\* C1: when workers run ExecuteMigrationWithFunc concurrently for one
\* (instance, database, version), no two records of that triple are Done.
C1_ConcurrentAtMostOneDone ==
    \A i, j \in DOMAIN history :
        (i # j /\ SameTriple(history[i], history[j]) /\ history[i].status = "DONE")
            => history[j].status # "DONE"

\* C2: over serialized calls, with or without Force, by the same or different
\* issues, there is at most one Done record per (instance, database, version).
C2_AtMostOneDonePerTriple ==
    \A db \in DatabaseIDs, version \in Versions :
        Cardinality({i \in DOMAIN history :
                        /\ history[i].db = db
                        /\ history[i].version = version
                        /\ history[i].status = "DONE"}) <= 1

\* a forced call by another issue has returned from a version that was Done
C2_Witness ==
    \E w \in Workers :
        /\ wk[w].pc = "done"
        /\ wk[w].m.force
        /\ wk[w].foundStatus = "DONE"
        /\ wk[w].foundIssue # wk[w].m.issue

\* C3: a call whose BeginMigration returned an id without error has left that
\* record Done or Failed when it returns, on every exit path.
C3_TerminalAtReturn ==
    \A w \in Workers :
        (wk[w].pc = "done" /\ wk[w].began)
            => history[wk[w].insertedID].status \in {"DONE", "FAILED"}

C5_DuplicateIsIdempotent ==
    /\ [](\A w \in Workers :
            Duplicate(wk[w]) =>
                /\ wk[w].pc = "done"
                /\ wk[w].beginID = wk[w].found
                /\ ErrorCode(wk[w].beginErr) = "MigrationAlreadyApplied"
                /\ wk[w].resErr = NilErr
                /\ wk[w].migrationHistoryID = wk[w].found
                /\ wk[w].execArg = NotCalled
                /\ ~wk[w].began
                /\ ~wk[w].endCalled)
    /\ [][\A w \in Workers :
            (Duplicate(wk[w]) \/ Duplicate(wk'[w])) => history' = history]_vars

\* a call has returned from a version its own issue had already applied
C5_Witness ==
    \E w \in Workers :
        /\ wk[w].pc = "done"
        /\ Duplicate(wk[w])
        /\ history[wk[w].found].status = "DONE"
        /\ wk[w].migrationHistoryID = wk[w].found

\* C6: without Force, a record of the triple that was not applied by the same
\* issue makes BeginMigration fail, with a different kind of error for a Done,
\* a Pending and a Failed record; the call has begun nothing and run nothing.
C6_DistinctFailures ==
    /\ [](\A w \in Workers :
            LET r == wk[w]
            IN Refused(r) =>
                  /\ r.pc = "done"
                  /\ r.beginErr # NilErr
                  /\ r.resErr # NilErr
                  /\ ~r.began
                  /\ r.execArg = NotCalled
                  /\ \A status \in {"DONE", "PENDING", "FAILED"} \ {r.foundStatus} :
                        ErrorCode(r.beginErr) # ErrorCode(BeginErrorFor(r, r.found, status)))
    /\ [][\A w \in Workers :
            (Refused(wk[w]) \/ Refused(wk'[w])) => history' = history]_vars

\* C7: with Force, a Pending or Failed record is reused: BeginMigration
\* returns its id without error and nothing is inserted; a Done record is
\* never reused, it still gives MigrationFailed or MigrationAlreadyApplied.
C7_ForceReusesUnfinished ==
    /\ [](\A w \in Workers :
            LET r == wk[w]
            IN (r.m.force /\ r.found # 0) =>
                  /\ r.foundStatus \in {"PENDING", "FAILED"} =>
                        /\ r.began
                        /\ r.beginErr = NilErr
                        /\ r.beginID = r.found
                        /\ r.insertedID = r.found
                  /\ r.foundStatus = "DONE" =>
                        /\ ~r.began
                        /\ r.pc = "done"
                        /\ r.beginID = r.found
                        /\ ErrorCode(r.beginErr) =
                              IF r.foundIssue = r.m.issue
                              THEN "MigrationAlreadyApplied" ELSE "MigrationFailed")
    /\ [][\A w \in Workers :
            (wk'[w].m.force /\ wk'[w].found # 0) =>
                /\ Len(history') = Len(history)
                /\ wk'[w].foundStatus = "DONE" => history' = history]_vars

\* a forced retry over a Failed record has run to its end on that record
C7_Witness ==
    \E w \in Workers :
        /\ wk[w].pc = "done"
        /\ wk[w].m.force
        /\ wk[w].foundStatus = "FAILED"
        /\ wk[w].endCalled
        /\ wk[w].endUpdate.id = wk[w].found

\* C8: when execFunc fails the call returns that error as it is, the schema
\* is not dumped again, and the record is Failed with a duration and without
\* a resulting schema.
C8_ExecErrorFinalizedFailed ==
    \A w \in Workers :
        LET r == wk[w]
        IN (r.pc = "done" /\ r.execErr # NilErr) =>
              /\ r.resErr = r.execErr
              /\ r.postDump = "none"
              /\ history[r.insertedID].status = "FAILED"
              /\ history[r.insertedID].duration
              /\ history[r.insertedID].schema = NoSchema

\* C9: when the dump after the migration fails because the database is gone,
\* the call returns the record id, an empty schema and no error, and the
\* record is Done with an empty resulting schema.
C9_DroppedDatabaseIsSuccess ==
    \A w \in Workers :
        LET r == wk[w]
        IN (r.pc = "done" /\ r.postDump = "dropped") =>
              /\ r.resErr = NilErr
              /\ r.migrationHistoryID = r.insertedID
              /\ r.updatedSchema = ""
              /\ history[r.insertedID].status = "DONE"
              /\ history[r.insertedID].schema = ""

\* C10: with an empty statement or a baseline migration execFunc is not
\* called and nothing is rendered, and still a Pending record is begun, the
\* schema is dumped after it, and the record is Done with that schema.
C10_SkipRunsLifecycle ==
    \A w \in Workers :
        LET r == wk[w]
        IN (r.began /\ ~r.doMigrate) =>
              /\ r.execArg = NotCalled
              /\ ~r.rendered
              /\ r.pc = "exec" => history[r.insertedID].status = "PENDING"
              /\ r.pc = "done" =>
                    /\ r.postDump # "none"
                    /\ r.postDump = "ok" =>
                          /\ history[r.insertedID].status = "DONE"
                          /\ history[r.insertedID].schema = r.postSchema

\* ------------------------------------------------------------ approval claims
Pending(call) == Len(call.before.approvers)
StepsOf(approval) == approval.templates[1].flow.steps

\* C15: FindNextPendingStep returns none exactly when there are at least as
\* many approvers as steps; otherwise it returns the step at index
\* len(approvers), a position inside the step list.
C15_NextPendingStepInRange ==
    ap.call.op = "FindNextPendingStep" =>
        LET steps == StepsOf(ap.call.before)
        IN  /\ (ap.call.step = 0) <=> (Pending(ap.call) >= Len(steps))
            /\ ap.call.step # 0 =>
                    ap.call.step = Pending(ap.call) + 1 /\ ap.call.step \in DOMAIN steps

C15_Witness ==
    /\ ap.call.op = "FindNextPendingStep"
    /\ Pending(ap.call) = 1
    /\ ap.call.step = 2

\* C14: CheckApprovalApproved is false without error when the approval is
\* absent, its finding is not done or carries an error, whatever the number of
\* templates; otherwise true without templates, an error with more than one,
\* and with one template true exactly when no step is pending.
C14_ApprovedDecision ==
    ap.call.op = "CheckApprovalApproved" =>
        LET a == ap.call.before
        IN  IF a.isNil \/ ~a.findingDone \/ a.findingError # ""
            THEN ~ap.call.ok /\ ap.call.err = NilErr
            ELSE IF Len(a.templates) = 0
            THEN ap.call.ok /\ ap.call.err = NilErr
            ELSE IF Len(a.templates) > 1
            THEN ap.call.err # NilErr
            ELSE /\ ap.call.err = NilErr
                 /\ ap.call.ok <=> (FindNextPendingStep(a.templates[1], a.approvers) = 0)

C14_Witness ==
    /\ ap.call.op = "CheckApprovalApproved"
    /\ ap.call.before.findingDone
    /\ ap.call.before.findingError # ""
    /\ Len(ap.call.before.templates) = 2
    /\ ~ap.call.ok
    /\ ap.call.err = NilErr

\* C16: a SkipApprovalStepIfNeeded call on an approval with no more approvers
\* than steps leaves it with no more approvers than steps, so any sequence of
\* serialized calls keeps len(approvers) <= len(steps).
C16_ApproversNeverExceedSteps ==
    [][(/\ Len(ap.approval.templates) > 0
        /\ Len(ap.approval.approvers) <= Len(StepsOf(ap.approval)))
       => Len(ap'.approval.approvers) <= Len(StepsOf(ap'.approval))]_vars

\* A second call that skips the last step, after a first call skipped one.
C16_Witness ==
    /\ ap.call.op = "SkipApprovalStepIfNeeded"
    /\ Len(ap.call.before.approvers) = 1
    /\ ap.call.before.approvers[1] = BotApprover
    /\ ap.call.n = 1
    /\ Len(ap.approval.approvers) = Len(StepsOf(ap.approval))

\* A step of invalid shape: not exactly one node, a step type other than ANY,
\* a node type other than ANY_IN_GROUP, a group value that is unspecified or
\* unknown, or a payload of no known variant.
InvalidShape(step) ==
    \/ Len(step.nodes) # 1
    \/ step.type # "ANY"
    \/ step.nodes[1].type # "ANY_IN_GROUP"
    \/ step.nodes[1].payload.kind \notin {"GroupValue", "Role"}
    \/ /\ step.nodes[1].payload.kind = "GroupValue"
       /\ step.nodes[1].payload.value \notin
            {<<"WORKSPACE_OWNER">>, <<"WORKSPACE_DBA">>, <<"PROJECT_OWNER">>, <<"PROJECT_MEMBER">>}

\* C12: a pending step of invalid shape is never skipped: no approver is
\* appended for it, and the call that reaches it returns an error, whatever
\* users and policy bindings exist.
C12_InvalidStepNeverSkipped ==
    (ap.call.op = "SkipApprovalStepIfNeeded" /\ Len(ap.call.before.templates) > 0) =>
        \A i \in DOMAIN StepsOf(ap.call.before) :
            (i > Pending(ap.call) /\ InvalidShape(StepsOf(ap.call.before)[i])) =>
                /\ Len(ap.approval.approvers) < i
                /\ Len(ap.approval.approvers) = i - 1 => ap.call.err # NilErr

\* The call reached an invalid step while an owner, a DBA and project members exist.
C12_Witness ==
    /\ ap.call.op = "SkipApprovalStepIfNeeded"
    /\ Len(ap.call.before.templates) > 0
    /\ Len(ap.call.users) = 2
    /\ Len(ap.call.policy.bindings) = 2
    /\ Len(ap.approval.approvers) < Len(StepsOf(ap.approval))
    /\ InvalidShape(StepsOf(ap.approval)[Len(ap.approval.approvers) + 1])
    /\ ap.call.err.wrap = "failed to check if user can approve"

\* C13: an approval with more than one template is never resolved by skipping:
\* SkipApprovalStepIfNeeded appends no approver to it, and CheckApprovalApproved
\* returns an error for it once its finding is done without error.
C13_MultiTemplateIsError ==
    /\ (ap.call.op = "SkipApprovalStepIfNeeded" /\ Len(ap.call.before.templates) > 1) =>
            ap.approval.approvers = ap.call.before.approvers
    /\ (/\ ap.call.op = "CheckApprovalApproved"
        /\ Len(ap.call.before.templates) > 1
        /\ ap.call.before.findingDone
        /\ ap.call.before.findingError = "") =>
            ap.call.err # NilErr

\* C11: a call that reached the loop appends one approved system-bot approver
\* for each step of the maximal run of pending steps without an eligible
\* approver, keeps the approvers that were there, stops at the first step with
\* an eligible approver, at a step of invalid shape or at the end of the
\* template, and returns the number of approvers it appended.
LoopRan(call) ==
    /\ call.op = "SkipApprovalStepIfNeeded"
    /\ Len(call.before.templates) > 0
    /\ call.err.wrap \notin {"failed to get project policy for project",
                              "failed to list users for role"}

Eligible(step, call) ==
    LET can == userCanApprove(step, call.users, call.policy)
    IN  can.err = NilErr /\ can.ok

C11_SkipsMaximalRun ==
    LoopRan(ap.call) =>
        LET before == ap.call.before.approvers
            after == ap.approval.approvers
            steps == StepsOf(ap.call.before)
        IN  /\ Len(after) >= Len(before)
            /\ SubSeq(after, 1, Len(before)) = before
            /\ \A i \in (Len(before) + 1)..Len(after) :
                    /\ after[i] = BotApprover
                    /\ i \in DOMAIN steps
                    /\ ~InvalidShape(steps[i])
                    /\ ~Eligible(steps[i], ap.call)
            /\ \/ Len(after) >= Len(steps)
               \/ Eligible(steps[Len(after) + 1], ap.call)
               \/ InvalidShape(steps[Len(after) + 1]) /\ ap.call.err # NilErr
            /\ ap.call.n = Len(after) - Len(before)

\* ----------------------------------------------------------- task gate claims
\* The runs of the task the gate was asked about, and whether the check of
\* one type passes on them.
OwnTaskRuns == SelectSeq(gate.taskCheckRuns, LAMBDA run : run.taskID = gate.task.id)
Passes(checkType) == passCheck(OwnTaskRuns, checkType, gate.allowedStatus).pass

\* C17: PassAllCheck looks only at the runs of its task. For schema-update,
\* SDL schema-update, data-update and ghost-sync tasks it is true exactly when
\* the connect check passes, the syntax check passes if the engine supports
\* syntax checks, the advise check passes if the engine supports SQL review,
\* the statement-type check passes if the engine is Postgres, and for a
\* ghost-sync task the ghost-sync check passes; for any other task it is true.
C17_GateDecision ==
    gate.call.op = "PassAllCheck" =>
        /\ gate.call.pass => gate.call.err = NilErr
        /\ IF gate.task.type \in
                {"bb.task.database.schema.update", "bb.task.database.schema.update-sdl",
                 "bb.task.database.data.update", "bb.task.database.schema.update.ghost.sync"}
           THEN gate.call.pass <=>
                    /\ Passes("bb.task-check.database.connect")
                    /\ gate.engine.syntaxCheck => Passes("bb.task-check.database.statement.syntax")
                    /\ gate.engine.sqlReview => Passes("bb.task-check.database.statement.advise")
                    /\ gate.engine.type = "POSTGRES" =>
                            Passes("bb.task-check.database.statement.type")
                    /\ gate.task.type = "bb.task.database.schema.update.ghost.sync" =>
                            Passes("bb.task-check.database.ghost.sync")
           ELSE gate.call.pass

\* A ghost-sync task on a Postgres engine with every capability passes with
\* five passing runs of its own, next to a run of another task.
C17_Witness ==
    /\ gate.call.op = "PassAllCheck"
    /\ gate.call.pass
    /\ gate.task.type = "bb.task.database.schema.update.ghost.sync"
    /\ gate.engine = [type |-> "POSTGRES", syntaxCheck |-> TRUE, sqlReview |-> TRUE]
    /\ Len(OwnTaskRuns) = 5
    /\ Len(gate.taskCheckRuns) = 6

\* The positions of the runs of the requested type, and the one with the
\* highest id among them.
RunsOfType == {i \in DOMAIN gate.taskCheckRuns : gate.taskCheckRuns[i].type = gate.checkType}
HighestID ==
    CHOOSE i \in RunsOfType :
        \A j \in RunsOfType : gate.taskCheckRuns[j].id <= gate.taskCheckRuns[i].id

\* C18: passCheck decides on the run of the requested type with the highest
\* id, wherever it is listed: it passes exactly when such a run exists, is
\* done, and every sub-result of its decodable payload meets the allowed
\* status; it fails when that run is not done even if an older run passes.
C18_LatestRunDecides ==
    gate.call.op = "passCheck" =>
        IF RunsOfType = {} THEN ~gate.call.pass
        ELSE LET run == gate.taskCheckRuns[HighestID]
             IN  gate.call.pass <=>
                    /\ run.status = "DONE"
                    /\ run.result.valid
                    /\ \A k \in DOMAIN run.result.resultList :
                            ~LessThan(run.result.resultList[k], gate.allowedStatus)

\* The newer run is listed first and is not done; the older one is done and passes.
C18_Witness ==
    /\ gate.call.op = "passCheck"
    /\ Len(gate.taskCheckRuns) = 2
    /\ RunsOfType = {1, 2}
    /\ gate.taskCheckRuns[1].id > gate.taskCheckRuns[2].id
    /\ gate.taskCheckRuns[1].status # "DONE"
    /\ gate.taskCheckRuns[2].status = "DONE"
    /\ gate.taskCheckRuns[2].result = Payload(<<"SUCCESS">>)
    /\ ~gate.call.pass

\* -------------------------------------------------- deployment matrix claims
MatrixBuilt == mx.call.op = "GetDatabaseMatrixFromDeploymentSchedule"
InStage(database, d) ==
    d \in DOMAIN mx.call.matrix /\
    \E k \in DOMAIN mx.call.matrix[d] : mx.call.matrix[d][k] = database

\* An expression holds: In when the key is present with an allowed value,
\* Exists when the key is present, any other operator never.
Holds(labels, expression) ==
    \/ /\ expression.operator = "In"
       /\ \E l \in labels : l[1] = expression.key /\
                \E i \in DOMAIN expression.values : expression.values[i] = l[2]
    \/ /\ expression.operator = "Exists"
       /\ \E l \in labels : l[1] = expression.key
Matches(labels, expressionList) ==
    expressionList # <<>> /\ \A i \in DOMAIN expressionList : Holds(labels, expressionList[i])

\* C20: a synced database not placed by an earlier stage is placed by a stage
\* exactly when the stage's expression list is non-empty and each of its
\* expressions holds on the database's labels; an empty list places nothing.
C20_MatchSemantics ==
    MatrixBuilt =>
        \A d \in DOMAIN mx.schedule.deployments, i \in DOMAIN mx.databaseList :
            LET database == mx.databaseList[i]
            IN  (/\ database.syncState # "NOT_FOUND"
                 /\ \A e \in 1..(d - 1) : ~InStage(database, e)) =>
                    (InStage(database, d) <=> Matches(database.labels, mx.schedule.deployments[d]))

\* Stage 1 = [env Exists], stage 2 = [], A {env: prod}, B {} gives [[A], []].
C20_Witness ==
    /\ MatrixBuilt
    /\ mx.schedule.deployments = <<<<Expression("env", "Exists", <<>>)>>, <<>>>>
    /\ mx.databaseList = <<Database(1, {<<"env", "prod">>}, "OK"), Database(2, {}, "OK")>>
    /\ mx.call.matrix = <<<<Database(1, {<<"env", "prod">>}, "OK")>>, <<>>>>

\* C19: every database is in at most one stage of the matrix, once; a synced
\* database that satisfies some stage is in the first such stage; a database
\* that satisfies no stage or whose sync state is not-found is in none.
C19_FirstMatchingStage ==
    MatrixBuilt =>
        /\ Len(mx.call.matrix) = Len(mx.schedule.deployments)
        /\ \A i \in DOMAIN mx.databaseList :
            LET database == mx.databaseList[i]
                matching == {d \in DOMAIN mx.schedule.deployments :
                                Matches(database.labels, mx.schedule.deployments[d])}
                placed == {d \in DOMAIN mx.call.matrix : InStage(database, d)}
            IN  /\ Cardinality(placed) <= 1
                /\ \A d \in placed :
                        Cardinality({k \in DOMAIN mx.call.matrix[d] :
                                        mx.call.matrix[d][k] = database}) = 1
                /\ IF database.syncState = "NOT_FOUND" \/ matching = {}
                   THEN placed = {}
                   ELSE placed = {CHOOSE d \in matching : \A e \in matching : d <= e}

\* A database that satisfies both stages is placed in the first one only, and
\* a not-found database that satisfies them is placed in none.
C19_Witness ==
    /\ MatrixBuilt
    /\ Len(mx.schedule.deployments) = 2
    /\ Len(mx.databaseList) = 2
    /\ \A i \in {1, 2}, d \in {1, 2} :
            Matches(mx.databaseList[i].labels, mx.schedule.deployments[d])
    /\ mx.databaseList[1].syncState = "NOT_FOUND"
    /\ mx.databaseList[2].syncState = "OK"
    /\ mx.call.matrix = <<<<mx.databaseList[2]>>, <<>>>>

\* C21: the matrix has one row per stage of the schedule, in schedule order,
\* also for stages that match no database: the databases of row d satisfy
\* stage d, and each row is sorted by UID in ascending order.
C21_RowPerStageSorted ==
    MatrixBuilt =>
        /\ DOMAIN mx.call.matrix = DOMAIN mx.schedule.deployments
        /\ \A d \in DOMAIN mx.call.matrix :
            LET row == mx.call.matrix[d]
            IN  /\ \A k \in DOMAIN row : Matches(row[k].labels, mx.schedule.deployments[d])
                /\ \A k, l \in DOMAIN row : k < l => row[k].uid < row[l].uid

\* The first stage matches nothing; the second matches two databases that
\* were supplied with the greater UID first.
C21_Witness ==
    /\ MatrixBuilt
    /\ Len(mx.call.matrix) = 2
    /\ mx.call.matrix[1] = <<>>
    /\ Len(mx.databaseList) = 2
    /\ mx.databaseList[1].uid > mx.databaseList[2].uid
    /\ mx.call.matrix[2] = <<mx.databaseList[2], mx.databaseList[1]>>

\* -------------------------------------------------------------- ghost claims
\* The runs whose configuration GetGhostConfig has produced, and those whose
\* configuration NewMigrationContext has been called on.
Configured == {i \in DOMAIN gh.runs : gh.runs[i].pc \in {"config", "done"}
                                      /\ gh.runs[i].configErr = NilErr}
ContextCalled == {i \in Configured : gh.runs[i].pc = "done"}

\* C22: the server id of a configuration is the server id offset plus the task
\* id (in uint arithmetic: equal to the sum whenever the sum fits), so two
\* migrations under one offset with distinct task ids hold distinct server ids.
C22_DistinctServerIDs ==
    /\ \A i \in Configured :
          LET sum == gh.serverIDOffset + gh.runs[i].taskID
          IN  /\ (gh.runs[i].config.serverID - sum) % UintModulus = 0
              /\ sum < UintModulus => gh.runs[i].config.serverID = sum
    /\ \A i, j \in Configured :
          gh.runs[i].taskID # gh.runs[j].taskID
              => gh.runs[i].config.serverID # gh.runs[j].config.serverID
C22_Witness ==
    /\ Configured = {1, 2}
    /\ gh.serverIDOffset = 1000
    /\ gh.runs[1].taskID = 5 /\ gh.runs[1].config.serverID = 1005
    /\ gh.runs[2].taskID = 6 /\ gh.runs[2].config.serverID = 1006

\* C23: the server id of every configuration lies in 1 .. MaxServerID.
C23_ServerIDInRange ==
    \A i \in Configured :
        gh.runs[i].config.serverID >= 1 /\ gh.runs[i].config.serverID <= MaxServerID

\* C24: the two paths of a configuration are the function of the task id, the
\* database id, the database name and the table name; migrations whose four
\* keys differ never share a socket path or a postpone-flag path, and no
\* socket path is a postpone-flag path.
Key(i) == <<Sprint(gh.runs[i].taskID), Sprint(gh.runs[i].database.uid),
            gh.runs[i].database.databaseName, gh.runs[i].tableName>>
C24_PathsSeparateKeys ==
    /\ \A i, j \in Configured :
          /\ Key(i) = Key(j) =>
                /\ gh.runs[i].config.socketFilename = gh.runs[j].config.socketFilename
                /\ gh.runs[i].config.postponeFlagFilename = gh.runs[j].config.postponeFlagFilename
          /\ Key(i) # Key(j) =>
                /\ gh.runs[i].config.socketFilename # gh.runs[j].config.socketFilename
                /\ gh.runs[i].config.postponeFlagFilename # gh.runs[j].config.postponeFlagFilename
          /\ gh.runs[i].config.socketFilename # gh.runs[j].config.postponeFlagFilename

\* C25: NewMigrationContext returns an error and no context when the alter
\* statement is empty (or blank), when the database name is empty and the
\* statement names no schema, or when the table name is empty and the statement
\* names no table; with a port that converts, the error is the one of that
\* test, and an empty name the statement supplies is taken from the statement
\* and the call succeeds.
Blank(statement) == \A k \in DOMAIN statement : statement[k] = " "
Words(statement) == SelectSeq(statement, LAMBDA piece : piece # " ")
NamesTable(statement) ==
    LET words == Words(statement)
    IN  Len(words) >= 3 /\ words[1] = "ALTER" /\ words[2] = "TABLE"
NamesSchema(statement) ==
    NamesTable(statement) /\ Len(Words(statement)) >= 5 /\ Words(statement)[4] = "."
PortConverts(port) == port \in {"", "3307"}
C25_ContextNeedsNames ==
    \A i \in ContextCalled :
        LET run == gh.runs[i]
            noStatement == Blank(run.statement)
            noDatabase == run.database.databaseName = <<>> /\ ~NamesSchema(run.statement)
            noTable == run.tableName = <<>> /\ ~NamesTable(run.statement)
            converts == PortConverts(run.dataSource.port)
        IN  /\ noStatement \/ noDatabase \/ noTable
                => run.contextErr # NilErr /\ run.context.isNil
            /\ converts /\ noStatement
                => run.contextErr.msg = <<"alterStatement must be provided and must not be empty">>
            /\ converts /\ ~noStatement /\ noDatabase
                => run.contextErr.msg = <<"database must be provided and database name must not be empty">>
            /\ converts /\ ~noStatement /\ ~noDatabase /\ noTable
                => run.contextErr.msg = <<"table must be provided and table name must not be empty">>
            /\ converts /\ ~noStatement /\ ~noDatabase /\ ~noTable
                => /\ run.contextErr = NilErr /\ ~run.context.isNil
                   /\ run.context.databaseName =
                        IF run.database.databaseName = <<>> THEN <<"s">>
                        ELSE run.database.databaseName
                   /\ run.context.originalTableName =
                        IF run.tableName = <<>> THEN <<"t">> ELSE run.tableName
C25_Witness ==
    \E i \in ContextCalled :
        /\ gh.runs[i].database.databaseName = <<>> /\ gh.runs[i].tableName = <<>>
        /\ gh.runs[i].contextErr = NilErr
        /\ gh.runs[i].context.databaseName = <<"s">>
        /\ gh.runs[i].context.originalTableName = <<"t">>

\* C26: a configuration, and the migration context made from it, assume
\* row-based replication exactly when some instance user is named
\* 'rdsadmin'@'localhost' and its grants contain SUPER.
RDSAdminWithSuper(instanceUsers) ==
    \E k \in DOMAIN instanceUsers :
        /\ instanceUsers[k].name = "'rdsadmin'@'localhost'"
        /\ \E g \in DOMAIN instanceUsers[k].grant : instanceUsers[k].grant[g] = "SUPER"
C26_AssumeRBRForRDS ==
    /\ \A i \in Configured :
          gh.runs[i].config.isAWS <=> RDSAdminWithSuper(gh.runs[i].instanceUsers)
    /\ \A i \in ContextCalled :
          gh.runs[i].contextErr = NilErr
              => (gh.runs[i].context.assumeRBR <=> RDSAdminWithSuper(gh.runs[i].instanceUsers))
C26_Witness ==
    \E i \in ContextCalled :
        /\ gh.runs[i].contextErr = NilErr
        /\ gh.runs[i].context.assumeRBR
        /\ Len(gh.runs[i].instanceUsers) = 2
        /\ gh.runs[i].instanceUsers[1].name # RDSAdmin

\* ------------------------------------------------------------- render claims
\* C27: RenderStatement returns the template as it is when the template is
\* empty, when there is no secret, or when the template is longer than the size
\* limit, whatever placeholders it holds.
C27_RenderGuards ==
    rs.called /\ (\/ rs.templateStatement = <<>>
                  \/ DOMAIN rs.secrets = {}
                  \/ ByteLen(rs.templateStatement) > RenderSizeLimit)
        => rs.result = rs.templateStatement
C27_Witness ==
    /\ rs.called
    /\ ByteLen(rs.templateStatement) > RenderSizeLimit
    /\ \E k \in DOMAIN rs.templateStatement :
          rs.templateStatement[k] = Placeholder("A") /\ "A" \in DOMAIN rs.secrets
    /\ rs.result = rs.templateStatement

\* C28: for a template within the size limit and at least one secret: when
\* every placeholder of the template names a secret the result holds no
\* placeholder; a placeholder that names no secret stays as it is; and every
\* occurrence of a placeholder that names a secret is replaced by the secret's
\* value.
RECURSIVE EachReplaced(_, _)
EachReplaced(template, secrets) ==
    IF template = <<>> THEN <<>>
    ELSE (IF Head(template).ph /\ Head(template).s \in DOMAIN secrets
          THEN secrets[Head(template).s] ELSE <<Head(template)>>)
         \o EachReplaced(Tail(template), secrets)
C28_RenderReplacesEach ==
    rs.called /\ rs.templateStatement # <<>> /\ DOMAIN rs.secrets # {}
              /\ ByteLen(rs.templateStatement) <= RenderSizeLimit
        => /\ (\A k \in DOMAIN rs.templateStatement :
                    rs.templateStatement[k].ph => rs.templateStatement[k].s \in DOMAIN rs.secrets)
                => \A k \in DOMAIN rs.result : ~rs.result[k].ph
           /\ rs.result = EachReplaced(rs.templateStatement, rs.secrets)

\* --------------------------------------------------------- secrecy of secrets
\* C29: the values of the secrets reach execFunc only. The record a call
\* inserts holds the truncated template as the caller gave it, whatever the
\* secrets are; every record holds a truncated template and never a token of a
\* secret's value; and the call keeps the template itself unrendered.
SecretTokens ==
    UNION {UNION {{secrets[n][k] : k \in DOMAIN secrets[n]} : n \in DOMAIN secrets} :
              secrets \in SecretMaps}
HoldsSecret(statement) == \E k \in DOMAIN statement : statement[k] \in SecretTokens
C29_SecretsOnlyToExecFunc ==
    /\ \A w \in Workers :
          /\ wk[w].statement \in Statements
          /\ wk[w].began /\ wk[w].found = 0 =>
                history[wk[w].insertedID].statement
                    = TruncateString(wk[w].statement, MaxSheetSize)
    /\ \A k \in DOMAIN history :
          /\ ~HoldsSecret(history[k].statement)
          /\ \E statement \in Statements :
                history[k].statement = TruncateString(statement, MaxSheetSize)
C29_Witness ==
    \E w \in Workers :
        /\ wk[w].rendered /\ HoldsSecret(wk[w].execArg)
        /\ wk[w].began /\ wk[w].found = 0
        /\ history[wk[w].insertedID].statement = <<Placeholder("KEY")>>
        /\ wk[w].resErr # NilErr

\* ------------------------------------------------- concurrent approval claim
\* C30: a step that a user can approve is covered by the system bot's approval
\* only when two calls of SkipApprovalStepIfNeeded on the approval have
\* overlapped; calls that run one after the other never leave such a step.
BotCoversEligibleStep ==
    /\ Len(ap.approval.templates) > 0
    /\ \E k \in DOMAIN ap.approval.approvers :
          /\ k <= Len(ap.approval.templates[1].flow.steps)
          /\ ap.approval.approvers[k] = BotApprover
          /\ LET can == userCanApprove(ap.approval.templates[1].flow.steps[k],
                                       sw.users, sw.policy)
             IN  can.err = NilErr /\ can.ok
C30_SingleWriterNeeded == BotCoversEligibleStep => sw.overlapped
C30_Witness ==
    /\ BotCoversEligibleStep
    /\ \A w \in Workers : sw.callers[w].pc = "done" /\ sw.callers[w].n = 1

\* ------------------------------------------------ approval claims, continued
\* C35: a SkipApprovalStepIfNeeded call that returns an error leaves the
\* approval as it was, and in every case the count it returns is the number
\* of approvers it appended.
C35_FailedSkipChangesNothing ==
    ap.call.op = "SkipApprovalStepIfNeeded" =>
        /\ ap.call.err # NilErr => ap.approval = ap.call.before
        /\ ap.call.n = Len(ap.approval.approvers) - Len(ap.call.before.approvers)

\* C36: CheckApprovalApproved is true for an approval with one template only
\* if every step of the template has an approver and that approver's status
\* is APPROVED.
C36_ApprovedNeedsApprovedStatus ==
    /\ ap.call.op = "CheckApprovalApproved"
    /\ Len(ap.call.before.templates) = 1
    /\ ap.call.ok
    => \A i \in DOMAIN StepsOf(ap.call.before) :
          /\ i \in DOMAIN ap.call.before.approvers
          /\ ap.call.before.approvers[i].status = "APPROVED"

\* C37: the loop of SkipApprovalStepIfNeeded ends, and it appends no more
\* approvers than the template has steps beyond the approvers recorded by
\* users; every turn that does not stop makes the approvers one longer.
UserApprovers == SelectSeq(ap.approval.approvers, LAMBDA a : a # BotApprover)
BotApprovers == SelectSeq(ap.approval.approvers, LAMBDA a : a = BotApprover)
Room ==
    LET steps == Len(ap.approval.templates[1].flow.steps)
    IN  IF steps > Len(UserApprovers) THEN steps - Len(UserApprovers) ELSE 0
SkipBounded ==
    Len(ap.approval.templates) > 0 =>
        /\ Len(BotApprovers) <= Room
        /\ sw.callers[1].stepsSkipped + sw.callers[2].stepsSkipped <= Room
SkipTurnGrows ==
    \A w \in Workers :
        sw.callers[w].pc = "write" /\ sw'.callers[w].pc = "find"
            => Len(ap'.approval.approvers) = Len(ap.approval.approvers) + 1
SkipReturned == \A w \in Workers : sw.callers[w].pc = "done"
C37_SkipLoopTerminates == []SkipBounded /\ [][SkipTurnGrows]_vars /\ <>SkipReturned
C37_Witness ==
    /\ SkipReturned
    /\ Len(BotApprovers) = 2
    /\ \E w \in Workers : sw.callers[w].n = 2 /\ sw.callers[w].err = NilErr

\* -------------------------------------------------- task gate claims, continued
\* C38: for the same task, runs and engine the gate passes at WARN whenever it
\* passes at SUCCESS; when every required check has a done run and one of these
\* runs holds a WARN sub-result (none an ERROR) the gate fails at SUCCESS and
\* passes at WARN; when the run of a required check holds an ERROR sub-result
\* the gate fails at both levels.
GateAt(allowedStatus) ==
    IF gate.allowedStatus = allowedStatus THEN gate.call.pass
    ELSE PassAllCheck(gate.task, allowedStatus, gate.taskCheckRuns, gate.engine).pass
RequiredChecks ==
    IF gate.task.type \in
            {"bb.task.database.schema.update", "bb.task.database.schema.update-sdl",
             "bb.task.database.data.update", "bb.task.database.schema.update.ghost.sync"}
    THEN {"bb.task-check.database.connect"}
         \cup (IF gate.engine.syntaxCheck
               THEN {"bb.task-check.database.statement.syntax"} ELSE {})
         \cup (IF gate.engine.sqlReview
               THEN {"bb.task-check.database.statement.advise"} ELSE {})
         \cup (IF gate.engine.type = "POSTGRES"
               THEN {"bb.task-check.database.statement.type"} ELSE {})
         \cup (IF gate.task.type = "bb.task.database.schema.update.ghost.sync"
               THEN {"bb.task-check.database.ghost.sync"} ELSE {})
    ELSE {}
SubResults(checkType) ==
    UNION {{OwnTaskRuns[i].result.resultList[k] : k \in DOMAIN OwnTaskRuns[i].result.resultList} :
              i \in {j \in DOMAIN OwnTaskRuns : OwnTaskRuns[j].type = checkType}}
Decided(checkType) ==
    \E i \in DOMAIN OwnTaskRuns :
        /\ OwnTaskRuns[i].type = checkType
        /\ OwnTaskRuns[i].status = "DONE"
        /\ OwnTaskRuns[i].result.valid
C38_GateMonotone ==
    gate.call.op = "PassAllCheck" =>
        /\ GateAt("SUCCESS") => GateAt("WARN")
        /\ /\ \A t \in RequiredChecks : Decided(t) /\ "ERROR" \notin SubResults(t)
           /\ \E t \in RequiredChecks : "WARN" \in SubResults(t)
           => ~GateAt("SUCCESS") /\ GateAt("WARN")
        /\ (\E t \in RequiredChecks : "ERROR" \in SubResults(t))
           => ~GateAt("SUCCESS") /\ ~GateAt("WARN")
C38_Witness ==
    /\ gate.call.op = "PassAllCheck"
    /\ gate.allowedStatus = "WARN"
    /\ gate.call.pass
    /\ "WARN" \in SubResults("bb.task-check.database.connect")
    /\ Cardinality(RequiredChecks) = 5
    /\ ~PassAllCheck(gate.task, "SUCCESS", gate.taskCheckRuns, gate.engine).pass

\* -------------------------------------------- deployment matrix claims, continued
\* C39: for databases with distinct UIDs the matrix is the same for every
\* order in which the databases are listed, and the call leaves the list and
\* the schedule as they were.
ListOrders(list) ==
    {p \in [DOMAIN list -> {list[i] : i \in DOMAIN list}] :
        \A i \in DOMAIN list : \E k \in DOMAIN list : p[k] = list[i]}
MatrixOfAnyOrder ==
    MatrixBuilt =>
        \A p \in ListOrders(mx.databaseList) :
            GetDatabaseMatrixFromDeploymentSchedule(mx.schedule, p) = mx.call.matrix
MatrixInputsKept == mx'.databaseList = mx.databaseList /\ mx'.schedule = mx.schedule
C39_MatrixOrderIndependent == []MatrixOfAnyOrder /\ [][MatrixInputsKept]_vars
C39_Witness ==
    /\ MatrixBuilt
    /\ Len(mx.databaseList) = 2
    /\ mx.databaseList[1].uid > mx.databaseList[2].uid
    /\ mx.databaseList[1].labels # mx.databaseList[2].labels
    /\ mx.call.matrix = <<<<mx.databaseList[1]>>, <<mx.databaseList[2]>>>>

\* ------------------------------------------- statement rendering claims, continued
\* C40: RenderStatement substitutes in one simultaneous pass: whenever the
\* replacement loop runs, the result is the template with each occurrence of a
\* placeholder that names a secret replaced by that secret's value, text that
\* a value brought in is not substituted again, and taking the matches in the
\* opposite order gives the same result.
RenderLoopRuns ==
    /\ rs.called /\ rs.templateStatement # <<>> /\ DOMAIN rs.secrets # {}
    /\ ByteLen(rs.templateStatement) <= RenderSizeLimit
MatchesBackwards(template) ==
    LET matches == FindAllStringSubmatch(template)
    IN [k \in 1..Len(matches) |-> matches[Len(matches) + 1 - k]]
C40_RenderSinglePass ==
    RenderLoopRuns =>
        /\ rs.result = EachReplaced(rs.templateStatement, rs.secrets)
        /\ rs.result = RenderLoop(rs.templateStatement, MatchesBackwards(rs.templateStatement),
                                  rs.secrets)

\* ------------------------------------------------------ replayed migrations
\* A call and its replay: worker 2 calls only after worker 1's call has
\* returned success, and worker 1's returned call stays in view while worker 2
\* runs.
\* The store starts empty or with one record of the triple that an earlier
\* call of some issue left PENDING or FAILED.
PriorRecords ==
    {[db |-> 1, version |-> 1, issue |-> issue, status |-> status, prevSchema |-> "s0",
      schema |-> NoSchema, statement |-> TruncateString(statement, MaxSheetSize),
      duration |-> status = "FAILED", finalized |-> IF status = "FAILED" THEN 1 ELSE 0] :
        issue \in Issues, status \in {"PENDING", "FAILED"}, statement \in Statements \ {<<>>}}
PriorHistories == {<<>>} \cup {<<rec>> : rec \in PriorRecords}

InitReplay ==
    /\ history \in PriorHistories
    /\ wk = [w \in Workers |-> IdleWorker]
    /\ calls = 0
    /\ ap = IdleApproval
    /\ gate = IdleGate
    /\ mx = IdleMatrix
    /\ gh = IdleGhost
    /\ rs = IdleRender
    /\ sw = IdleSkippers

ReplayTurn(w) ==
    IF w = 1 THEN wk[2].pc = "idle" ELSE wk[1].pc = "done" /\ wk[1].resErr = NilErr

NextReplay ==
    \/ \E w \in Workers : ReplayTurn(w) /\ Call(w) /\ UNCHANGED others
    \/ \E w \in Workers : ReplayTurn(w) /\ PreDump(w) /\ UNCHANGED others
    \/ \E w \in Workers : ReplayTurn(w) /\ BeginCheck(w) /\ UNCHANGED others
    \/ \E w \in Workers : ReplayTurn(w) /\ BeginInsert(w) /\ UNCHANGED others
    \/ \E w \in Workers : ReplayTurn(w) /\ Execute(w) /\ UNCHANGED others
    \/ \E w \in Workers : ReplayTurn(w) /\ PostDump(w) /\ UNCHANGED others
    \/ \E w \in Workers : ReplayTurn(w) /\ EndMigration(w) /\ UNCHANGED others
    \/ \E w \in Workers : ReplayTurn(w) /\ Finish(w) /\ UNCHANGED others

SpecReplay == InitReplay /\ [][NextReplay]_vars

\* ------------------------------------------------- migration coordinator claims
\* C31: within one ExecuteMigrationWithFunc call the steps come in the order
\* pre-image dump, BeginMigration, execFunc, post-image dump, EndMigration, each
\* at most once. A failed pre-image dump creates no record and executes
\* nothing; execFunc and the post-image dump happen only after BeginMigration
\* returned an id without error; EndMigration has been called exactly once
\* when the call returns, after every other step, if and only if BeginMigration
\* returned an id without error.
StepRank(pc) ==
    CASE pc = "idle" -> 0 [] pc = "dump" -> 1 [] pc = "begin" -> 2 [] pc = "insert" -> 3
      [] pc = "exec" -> 4 [] pc = "postdump" -> 5 [] pc = "end" -> 6 [] pc = "done" -> 7
BeginReturnedID(r) == r.began /\ r.beginErr = NilErr /\ r.beginID # 0
StepsInOrder ==
    \A w \in Workers :
        LET r == wk[w]
        IN /\ r.pc \in {"dump", "begin", "insert"} =>
                  ~r.began /\ r.execArg = NotCalled /\ r.postDump = "none" /\ ~r.endCalled
           /\ r.execArg # NotCalled => BeginReturnedID(r) /\ StepRank(r.pc) >= 5
           /\ r.pc = "exec" => r.execArg = NotCalled /\ r.postDump = "none"
           /\ r.postDump # "none" => BeginReturnedID(r) /\ StepRank(r.pc) >= 6
           /\ r.began => BeginReturnedID(r) /\ StepRank(r.pc) >= 4
           /\ r.endCalled => r.pc = "done" /\ BeginReturnedID(r)
           /\ r.pc = "done" => (r.endCalled <=> BeginReturnedID(r))
StepsAdvance ==
    \A w \in Workers :
        \/ wk'[w] = wk[w]
        \/ wk[w].pc = "done" /\ wk'[w] = IdleWorker
        \/ /\ StepRank(wk'[w].pc) > StepRank(wk[w].pc)
           /\ history' # history => wk[w].pc \in {"insert", "end"}
           /\ wk[w].pc = "dump" /\ wk'[w].pc = "done" =>
                 /\ history' = history
                 /\ wk'[w].resErr # NilErr /\ wk'[w].execArg = NotCalled /\ ~wk'[w].endCalled
           /\ wk[w].pc = "end" => wk'[w].pc = "done" /\ wk'[w].endCalled
C31_StepsInFixedOrder == []StepsInOrder /\ [][StepsAdvance]_vars
C31_Witness ==
    \E w \in Workers :
        /\ wk[w].pc = "done" /\ wk[w].endCalled /\ wk[w].found = 0
        /\ wk[w].execArg # NotCalled /\ wk[w].execErr = NilErr /\ wk[w].postDump = "ok"
        /\ wk[w].resErr = NilErr /\ history[wk[w].insertedID].status = "DONE"

\* C32: whenever BeginMigration has returned a record id without error, the
\* record is PENDING: from that return until the call's EndMigration, so all
\* the time execFunc may be running, the attempt's record is PENDING, whether
\* it was inserted by the call or reused under Force.
C32_RunningRecordPending ==
    \A w \in Workers :
        BeginReturnedID(wk[w]) /\ wk[w].pc \in {"exec", "postdump", "end"} =>
            history[wk[w].insertedID].status = "PENDING"

\* C34: a failed post-image dump is tolerated only when the database is gone:
\* when the dump failed for another reason the call returns that error, no id
\* and no schema, and its record is finalized FAILED when the call returns,
\* never DONE.
C34_OtherDumpFailureFails ==
    \A w \in Workers :
        wk[w].postDump = "error" =>
            /\ wk[w].resErr # NilErr /\ wk[w].resErr.msg \in {e.msg : e \in DumpErrors}
            /\ wk[w].migrationHistoryID = 0
            /\ wk[w].pc = "done" => history[wk[w].insertedID].status = "FAILED"

\* C33: once a call of issue I on a triple has returned success and its record
\* is DONE, a later call of the same issue on the same triple (whose pre-image
\* dump and record lookup work) returns success with the same record id and
\* executes nothing, also when the successful call was a forced retry over a
\* PENDING or FAILED record that another issue created.
Succeeded(r) == r.pc = "done" /\ r.resErr = NilErr
\* the replay got as far as BeginMigration's switch on the record it found
ReplayDecided(r) == r.pc = "done" /\ r.found # 0
SameIssueAndTriple(r, q) ==
    r.m.issue = q.m.issue /\ r.m.db = q.m.db /\ r.m.version = q.m.version
C33_ReplayIdempotent ==
    /\ Succeeded(wk[1]) /\ ReplayDecided(wk[2]) /\ SameIssueAndTriple(wk[1], wk[2])
    /\ history[wk[1].migrationHistoryID].status = "DONE"
    =>
        /\ wk[2].resErr = NilErr
        /\ wk[2].migrationHistoryID = wk[1].migrationHistoryID
        /\ wk[2].execArg = NotCalled /\ ~wk[2].began

====
